---- MODULE Spec2Model ----
(***************************************************************************)
(* A model of trip's incremental build pipeline: the Automator (its         *)
(* constructor, build, start, the watch loop), the Source's watcher, the    *)
(* Destination's update (diff and sync to disk), the Directory priming and  *)
(* the task loop of the CLI, translated from the sources under src/.        *)
(***************************************************************************)
EXTENDS Integers, Sequences, FiniteSets, TLC

\* ------------------------------------------------------------------ bounds

\* Destination.update calls made in one behaviour of SpecDest.
MaxUpdates == 2
\* Disk operations (write, unlink/trash) that fail with an I/O error.
MaxFaults == 1
\* Watcher events delivered to the Source in one behaviour of Spec.
MaxEvents == 3
\* Waypoint invocations that throw or return invalid output.
MaxThrows == 1
\* Calls of build() made by the harness of SpecBuild.
MaxCalls == 3
\* Times the clock advances in one behaviour of SpecSource.
MaxTicks == 3

\* The quiet period of a re-touch, in milliseconds.
QuietPeriod == 250
\* The Automator's default byte limit of its Source.
DefaultLimit == 100000000
\* loadDirectory's default limit (Infinity): no limit at all.
Infinity == -1
\* A byte limit that the source directories of the model can exceed.
SmallLimit == 1
\* Tasks named on one command line of the CLI.
MaxTasks == 3

\* ------------------------------------------------------- paths and stores

\* A relative file path is its sequence of segments; <<>> is the root.
Root == << >>
\* Every path of the model, in the iteration order of a store's entries.
PathList == << <<"a">>, <<"b">>, <<"d">>, <<"d", "b">>, <<"d", "c">> >>
Paths == {PathList[i] : i \in 1..Len(PathList)}
\* The paths of the Destination specification: a root file, a file that is
\* also a directory prefix, and two files of one nested directory.
DestPaths == { <<"a">>, <<"d">>, <<"d", "b">>, <<"d", "c">> }
\* The paths of the Automator specification (files of the root).
AutoPaths == { <<"a">>, <<"b">> }
\* A file's contents: a Buffer, as its bytes.
Contents == { <<1>>, <<2>> }
\* The value of Map#get for an absent key, and of `contents: null`.
Undefined == << -1 >>
\* sander.readFile rejected: with code ENOENT, with any other error.
NotFound == << -2 >>
Unreadable == << -3 >>
EmptyStore == [p \in {} |-> Undefined]
\* priv.files before the directory was loaded (undefined): no store at all
NotLoaded == [p \in {<<"undefined">>} |-> Undefined]
StoresOver(P) == UNION { [S -> Contents] : S \in SUBSET P }
\* Map#get
Get(files, file) == IF file \in DOMAIN files THEN files[file] ELSE Undefined
\* Map#set
SetFile(files, file, contents) ==
  [p \in DOMAIN files \cup {file} |-> IF p = file THEN contents ELSE files[p]]
\* Map#remove
Remove(files, file) == [p \in DOMAIN files \ {file} |-> files[p]]
\* Map#entries, as the sequence of its keys
Entries(files) == SelectSeq(PathList, LAMBDA p : p \in DOMAIN files)
\* the bytes of the files of a store, summed over its entries
RECURSIVE SumLengths(_, _)
SumLengths(files, list) ==
  IF list = << >> THEN 0
  ELSE Len(files[Head(list)]) + SumLengths(files, Tail(list))
\* loadDirectory's size: size += contents.length for every file loaded
Size(files) == SumLengths(files, Entries(files))
\* path.dirname
Dirname(file) == SubSeq(file, 1, Len(file) - 1)
\* the proper ancestors of a path, the root included
Ancestors(file) == {SubSeq(file, 1, n) : n \in 0..(Len(file) - 1)}
\* subdir(until, file): file lies strictly below until
Subdir(until, file) ==
  /\ Len(file) > Len(until)
  /\ SubSeq(file, 1, Len(until)) = until
\* the directories a disk needs to hold the files of a store
DirsOf(files) == UNION {Ancestors(p) : p \in DOMAIN files} \cup {Root}
\* a store a real directory can hold: no file is a directory of another
OnDisk(files) == \A p \in DOMAIN files : \A q \in DOMAIN files : ~Subdir(p, q)

\* ------------------------------------------------------------- variables

VARIABLES
  \* the destination directory on disk: its regular files and directories
  diskFiles, diskDirs,
  \* Destination: priv.primePromise (none, loading, done), priv.files
  destPrime, destFiles,
  \* one Destination#update call: where it stands, its arguments, the
  \* writes and deletions still running, the deletions left to walk
  uPc, uOld, uNew, uSafe, pendW, pendD, rmQueue, uChanges,
  \* bookkeeping of the call: disk operations it issued, directories it
  \* tried to remove, whether the disk matched the store when it was called
  uIo, uTried, uMatched, uCalls, uPrev, faults,
  \* Automator options: watch, waypoints (each waypoint by what it does);
  \* the destination directory as it was before the first update, where a
  \* specification records it
  watch, waypoints, disk0,
  \* Date.now() in milliseconds, the number of times it has advanced,
  \* Source: priv.filesLastTouched (0: no record), 'updated' events emitted
  now, ticks, filesLastTouched, nUpdated,
  \* bookkeeping of the last add/change event that rewrote the stored bytes
  \* of a file with a record: the time since the record (-1: none so far),
  \* and whether 'updated' was emitted for it
  rewriteGap, rewriteEmitted,
  \* Source: priv.primePromise, priv.files, the watcher and its promise,
  \* whether watcher.close() was called, watcher events delivered so far
  srcPrime, srcFiles, watcher, closed, nEvents,
  \* Automator#start: where the coroutine stands, what it settled with
  sPc, startValue,
  \* priv.building, priv.buildCount
  building, buildCount,
  \* the build in flight: where it stands, who called it, the waypoint
  \* awaited, initialInput, input, safeDelete, steps
  bPc, bWho, bI, bInput, bCur, bSafe, bSteps,
  \* the promise of build #0; the id of the last BuildResult
  firstBuild, lastId,
  \* the watch loop: the 'updated' listener is attached, triggers, the
  \* debounce timer is armed, callbacks chained on `building` that have
  \* not started, a chained callback's build is in flight
  listening, triggers, timerPending, queued, chainBusy,
  \* events emitted by the Automator, counted by name
  nStarting, nComplete, nFailed,
  \* bookkeeping: build() calls, calls that threw the concurrent-build
  \* error, calls made while a build was in flight, whether an 'updated'
  \* event was emitted during build #0, paths updated and not yet in a
  \* build-starting event, waypoint failures so far
  nCalls, nConcurrent, nOverlap, earlyUpdates, uncovered, throws,
  \* priv.buildCount when the last rebuild of the watch loop failed (-1: none)
  idAtFailure,
  \* Directory: the Destination's priv.size (-1: undefined), and the number
  \* of times its directory was read from disk
  destSize, nLoads,
  \* Automator option limit; Source: priv.size, 'error' events emitted
  limit, srcSize, nErrors,
  \* the triggers of the last build-starting event: none yet, null, a map
  lastTriggers,
  \* the CLI: the tasks named on the command line (each by what its function
  \* does), where the launch callback stands, the task of the loop,
  \* taskRunning, failed, the exit code (-1: running), the tasks whose
  \* function was called, the tasks that finished
  tasks, cliPc, taskIndex, taskRunning, failed, exitCode, called, finished,
  \* new Automator(options): the options cwd, src and dest, whether
  \* subdir(a, a) holds, where the constructor stands, the error thrown,
  \* priv.cwd, priv.srcDir, priv.destDir, whether priv.source and
  \* priv.destination were created
  ctorArgs, subdirOfSelf, ctorPc, ctorError, cwd, srcDir, destDir, created,
  \* the source directory on disk, where a specification follows it; the
  \* handlers of the watcher that are waiting for sander.readFile, each with
  \* its event and what the read gives once the disk has served it; the
  \* changes of the source directory so far
  srcDisk, reads, nArrived

diskVars == <<diskFiles, diskDirs>>
destVars == <<destPrime, destFiles>>
updVars == <<uPc, uOld, uNew, uSafe, pendW, pendD, rmQueue, uChanges,
             uIo, uTried, uMatched, uCalls, uPrev, faults>>
srcVars == <<srcPrime, srcFiles, watcher, closed, nEvents>>
dirVars == <<destSize, nLoads>>
confVars == <<watch, waypoints, disk0, limit>>
cliVars == <<tasks, cliPc, taskIndex, taskRunning, failed, exitCode, called,
             finished>>
ctorVars == <<ctorArgs, subdirOfSelf, ctorPc, ctorError, cwd, srcDir, destDir,
              created>>
optVars == <<confVars, cliVars, ctorVars>>
raceVars == <<srcDisk, reads, nArrived>>
touchVars == <<now, ticks, filesLastTouched, nUpdated, rewriteGap,
               rewriteEmitted, srcSize, nErrors, raceVars>>
startVars == <<sPc, startValue>>
buildVars == <<building, buildCount, bPc, bWho, bI, bInput, bCur, bSafe,
               bSteps, firstBuild, lastId, nCalls, nConcurrent, nOverlap,
               throws, idAtFailure>>
loopVars == <<listening, triggers, timerPending, queued, chainBusy,
              earlyUpdates, uncovered>>
emitVars == <<nStarting, nComplete, nFailed, lastTriggers>>
autoVars == <<optVars, touchVars, srcVars, startVars, buildVars, loopVars, emitVars>>
vars == <<diskVars, destVars, updVars, dirVars, autoVars>>

\* ---------------------------------------------------------- Destination

\* Change constructor: the type of a change
ChangeType(contents, oldContents) ==
  IF contents # Undefined
    THEN IF oldContents # Undefined THEN "modify" ELSE "add"
    ELSE "delete"

\* new Change({file, contents, oldContents})
Change(file, contents, oldContents) ==
  [file |-> file, contents |-> contents, oldContents |-> oldContents,
   type |-> ChangeType(contents, oldContents)]

\* oldFiles && oldFiles.equals(newFiles)
NoChange(oldFiles, newFiles) == oldFiles = newFiles

\* the store is left as it was
StoreKeptOld(oldFiles, newFiles) == oldFiles

\* priv.files = newFiles
StoreAfterUpdate(oldFiles, newFiles) == newFiles

\* only the files absent from the old map are written
WriteSetAddsOnly(oldFiles, newFiles) ==
  {file \in DOMAIN newFiles : Get(oldFiles, file) = Undefined}

\* every file of the new store is written
WriteSetAll(oldFiles, newFiles) == DOMAIN newFiles

\* the files the first Promise.map writes
WriteSet(oldFiles, newFiles) ==
  {file \in DOMAIN newFiles :
     \/ Get(oldFiles, file) = Undefined
     \/ newFiles[file] # Get(oldFiles, file)}

\* the files the second Promise.map deletes
DeleteSet(oldFiles, newFiles) ==
  {file \in DOMAIN oldFiles : file \notin DOMAIN newFiles}

\* the resolved value of the first Promise.map
WriteChanges(oldFiles, newFiles) ==
  LET w == SelectSeq(Entries(newFiles),
                     LAMBDA f : f \in WriteSet(oldFiles, newFiles))
  IN [i \in 1..Len(w) |-> Change(w[i], newFiles[w[i]], Get(oldFiles, w[i]))]

\* the resolved value of the second Promise.map
DeleteChanges(oldFiles, newFiles) ==
  LET d == SelectSeq(Entries(oldFiles),
                     LAMBDA f : f \in DeleteSet(oldFiles, newFiles))
  IN [i \in 1..Len(d) |-> Change(d[i], Undefined, oldFiles[d[i]])]

\* the deletions are listed first
DeletionsFirst(writes, deletions) == deletions \o writes

\* return [...writes, ...deletions]
ReturnedChanges(writes, deletions) == writes \o deletions

\* sander.writeFile succeeds: no ancestor is a file, the path no directory
CanWrite(files, dirs, file) ==
  /\ file \notin dirs
  /\ \A anc \in Ancestors(file) : anc \notin DOMAIN files

\* a directory with an entry in it
NotEmpty(files, dirs, dir) ==
  \/ \E f \in DOMAIN files : Subdir(dir, f)
  \/ \E d \in dirs : Subdir(dir, d)

\* deleteEmptyParents(file, until): the directories left, whether it
\* fulfilled, and the directories it called rmdir on
RECURSIVE DeleteEmptyParents(_, _, _, _, _)
DeleteEmptyParents(file, until, files, dirs, tried) ==
  IF until = file \/ ~Subdir(until, file)
    THEN [dirs |-> dirs, ok |-> TRUE, tried |-> tried]
    ELSE LET dir == Dirname(file) IN
      IF dir \notin dirs
        THEN [dirs |-> dirs, ok |-> FALSE, tried |-> tried \cup {dir}]
      ELSE IF NotEmpty(files, dirs, dir)
        THEN [dirs |-> dirs, ok |-> TRUE, tried |-> tried \cup {dir}]
      ELSE DeleteEmptyParents(dir, until, files, dirs \ {dir},
                              tried \cup {dir})

\* a load that failed is started again by the next call
PrimeAgain(prime) == IF prime \in {"none", "failed"} THEN "loading" ELSE prime

\* Directory#prime: the load is started once, and every call returns the
\* same promise.
PrimeCalled(prime) == IF prime = "none" THEN "loading" ELSE prime

\* the limit is never exceeded by one byte
OverLimitByOne(size, lim) == lim # Infinity /\ size > lim + 1

\* if (size > limit)
OverLimit(size, lim) == lim # Infinity /\ size > lim

\* What makes a load fail, apart from a missing root and the limit: nothing,
\* a path below the root that is gone when it is read, any other error.
LoadFaults == {"none", "below", "other"}

\* loadDirectory(baseDir, filter, limit) on a directory holding `files`:
\* the error it rejects with (its code, whether its path is baseDir), or
\* its {files, size}
LoadDirectory(files, dirs, lim, fault) ==
  IF fault = "other"
    THEN [error |-> "EIO", atBase |-> TRUE, files |-> EmptyStore, size |-> 0]
  ELSE IF Root \notin dirs
    THEN [error |-> "ENOENT", atBase |-> TRUE, files |-> EmptyStore, size |-> 0]
  ELSE IF fault = "below"
    THEN [error |-> "ENOENT", atBase |-> FALSE, files |-> EmptyStore, size |-> 0]
  ELSE IF OverLimit(Size(files), lim)
    THEN [error |-> "limit", atBase |-> FALSE, files |-> EmptyStore, size |-> 0]
  ELSE [error |-> "none", atBase |-> FALSE, files |-> files, size |-> Size(files)]

\* any path that is not found counts as a missing directory
AnyNotFound(r) == r.error = "ENOENT"

\* the catch of prime(): error.code === 'ENOENT' && error.path === priv.dir
MissingDir(r) == r.error = "ENOENT" /\ r.atBase

\* The Destination's primePromise settles: the directory is loaded; a
\* missing root is created and gives the empty map and size 0; any other
\* error rejects the promise and leaves priv.files and priv.size unset.
DestPrimeSettles(fault) ==
  /\ destPrime = "loading"
  /\ nLoads' = nLoads + 1
  /\ LET r == LoadDirectory(diskFiles, diskDirs, Infinity, fault)
     IN IF r.error = "none"
          THEN /\ destPrime' = "done"
               /\ destFiles' = r.files
               /\ destSize' = r.size
               /\ UNCHANGED diskDirs
        ELSE IF MissingDir(r)
          THEN /\ destPrime' = "done"
               /\ destFiles' = EmptyStore
               /\ destSize' = 0
               /\ diskDirs' = diskDirs \cup {Root}
        ELSE /\ destPrime' = "failed"
             /\ UNCHANGED <<destFiles, destSize, diskDirs>>
  /\ UNCHANGED <<diskFiles, updVars>>

\* Destination#update is called: it waits for this.prime().
UpdateCalled(newFiles, safeDelete) ==
  /\ uPc' = "priming"
  /\ uPrev' = uNew
  /\ uNew' = newFiles
  /\ uSafe' = safeDelete
  /\ uCalls' = uCalls + 1
  /\ uIo' = 0
  /\ uTried' = {}
  /\ rmQueue' = << >>
  /\ uChanges' = << >>
  /\ UNCHANGED <<diskVars, destFiles, uOld, pendW, pendD, uMatched, faults>>

\* Destination#update, from the primed store to the start of the disk
\* operations.
UpdateStarts ==
  /\ uPc = "priming"
  /\ destPrime = "done"
  /\ uOld' = destFiles
  /\ uMatched' = (diskFiles = destFiles)
  /\ IF NoChange(destFiles, uNew)
       THEN /\ uPc' = "returned"
            /\ UNCHANGED <<destFiles, pendW, pendD>>
       ELSE /\ uPc' = "io"
            /\ destFiles' = StoreAfterUpdate(destFiles, uNew)
            /\ pendW' = WriteSet(destFiles, uNew)
            /\ pendD' = DeleteSet(destFiles, uNew)
  /\ UNCHANGED <<diskVars, destPrime, uNew, uSafe, rmQueue, uChanges, uIo,
                 uTried, uCalls, uPrev, faults>>

\* sander.writeFile(priv.dir, file, contents) on a disk: whether it
\* fulfils, and the files and directories afterwards (the missing parent
\* directories are made)
DiskWrite(files, dirs, file, contents) ==
  IF CanWrite(files, dirs, file)
    THEN [ok |-> TRUE, files |-> SetFile(files, file, contents),
          dirs |-> dirs \cup Ancestors(file)]
    ELSE [ok |-> FALSE, files |-> files, dirs |-> dirs]

\* trash([file]) or sander.unlink(priv.dir, file) on a disk: whether it
\* fulfils, and the files and directories afterwards
DiskDelete(files, dirs, file) ==
  IF file \in DOMAIN files
    THEN [ok |-> TRUE, files |-> Remove(files, file), dirs |-> dirs]
    ELSE [ok |-> FALSE, files |-> files, dirs |-> dirs]

\* the update that fails puts the map it started from back
StoreRolledBack(files, oldFiles) == oldFiles

\* priv.files when a write, a deletion or a rmdir of update() has failed:
\* the rejection passes through update(), which has no catch, and the map
\* assigned before the disk operations stays
StoreAfterFailure(files, oldFiles) == files

\* One write of the first Promise.map settles.
WriteSettles(file, fault) ==
  /\ file \in pendW
  /\ pendW' = pendW \ {file}
  /\ uIo' = uIo + 1
  /\ IF ~fault /\ DiskWrite(diskFiles, diskDirs, file, uNew[file]).ok
       THEN /\ diskFiles' = DiskWrite(diskFiles, diskDirs, file,
                                      uNew[file]).files
            /\ diskDirs' = DiskWrite(diskFiles, diskDirs, file,
                                     uNew[file]).dirs
            /\ UNCHANGED <<uPc, destFiles>>
       ELSE /\ uPc' = IF uPc = "io" THEN "rejected" ELSE uPc
            /\ destFiles' = StoreAfterFailure(destFiles, uOld)
            /\ UNCHANGED diskVars
  /\ faults' = IF fault THEN faults + 1 ELSE faults
  /\ UNCHANGED <<destPrime, uOld, uNew, uSafe, pendD, rmQueue, uChanges,
                 uTried, uMatched, uCalls, uPrev>>

\* One trash or unlink of the second Promise.map settles.
DeleteSettles(file, fault) ==
  /\ file \in pendD
  /\ pendD' = pendD \ {file}
  /\ uIo' = uIo + 1
  /\ IF ~fault /\ DiskDelete(diskFiles, diskDirs, file).ok
       THEN /\ diskFiles' = DiskDelete(diskFiles, diskDirs, file).files
            /\ UNCHANGED <<diskDirs, uPc, destFiles>>
       ELSE /\ uPc' = IF uPc = "io" THEN "rejected" ELSE uPc
            /\ destFiles' = StoreAfterFailure(destFiles, uOld)
            /\ UNCHANGED diskVars
  /\ faults' = IF fault THEN faults + 1 ELSE faults
  /\ UNCHANGED <<destPrime, uOld, uNew, uSafe, pendW, rmQueue, uChanges,
                 uTried, uMatched, uCalls, uPrev>>

\* Promise.all fulfils: every write and deletion succeeded.
IoFulfils ==
  /\ uPc = "io"
  /\ pendW = {} /\ pendD = {}
  /\ uPc' = "rmdir"
  /\ rmQueue' = DeleteChanges(uOld, uNew)
  /\ UNCHANGED <<diskVars, destVars, uOld, uNew, uSafe, pendW, pendD,
                 uChanges, uIo, uTried, uMatched, uCalls, uPrev, faults>>

\* One turn of the loop over the deletions: deleteEmptyParents.
RmdirParents ==
  /\ uPc = "rmdir"
  /\ rmQueue # << >>
  /\ LET r == DeleteEmptyParents(Head(rmQueue).file, Root, diskFiles,
                                 diskDirs, {})
     IN /\ diskDirs' = r.dirs
        /\ uTried' = uTried \cup r.tried
        /\ uIo' = uIo + Cardinality(r.tried)
        /\ rmQueue' = Tail(rmQueue)
        /\ uPc' = IF r.ok THEN uPc ELSE "rejected"
        /\ destFiles' = IF r.ok THEN destFiles
                        ELSE StoreAfterFailure(destFiles, uOld)
  /\ UNCHANGED <<diskFiles, destPrime, uOld, uNew, uSafe, pendW, pendD,
                 uChanges, uMatched, uCalls, uPrev, faults>>

\* Destination#update returns its changes.
UpdateReturns ==
  /\ uPc = "rmdir"
  /\ rmQueue = << >>
  /\ uPc' = "returned"
  /\ uChanges' = ReturnedChanges(WriteChanges(uOld, uNew),
                                 DeleteChanges(uOld, uNew))
  /\ UNCHANGED <<diskVars, destVars, uOld, uNew, uSafe, pendW, pendD,
                 rmQueue, uIo, uTried, uMatched, uCalls, uPrev, faults>>

\* ------------------------------------------ the Destination's steps as actions

\* update(newFiles, safeDelete) is called once the previous call has
\* settled and its disk operations have ended.
DUpdate ==
  /\ uPc \in {"idle", "returned", "rejected"}
  /\ pendW = {} /\ pendD = {}
  /\ uCalls < MaxUpdates
  /\ \E newFiles \in StoresOver(DestPaths) : \E safeDelete \in BOOLEAN :
       UpdateCalled(newFiles, safeDelete)
  /\ destPrime' = PrimeCalled(destPrime)
  /\ UNCHANGED <<dirVars, autoVars>>

DPrime ==
  /\ DestPrimeSettles("none")
  /\ UNCHANGED autoVars

DStart ==
  /\ UpdateStarts
  /\ UNCHANGED <<dirVars, autoVars>>

DWrite ==
  /\ \E file \in pendW : \E fault \in {FALSE, faults < MaxFaults} :
       WriteSettles(file, fault)
  /\ UNCHANGED <<dirVars, autoVars>>

DDelete ==
  /\ \E file \in pendD : \E fault \in {FALSE, faults < MaxFaults} :
       DeleteSettles(file, fault)
  /\ UNCHANGED <<dirVars, autoVars>>

DIoFulfils ==
  /\ IoFulfils
  /\ UNCHANGED <<dirVars, autoVars>>

DRmdir ==
  /\ RmdirParents
  /\ UNCHANGED <<dirVars, autoVars>>

DReturn ==
  /\ UpdateReturns
  /\ UNCHANGED <<dirVars, autoVars>>

\* ------------------------------------------------------------ Automator

\* What each waypoint of the model does with its input.
\*   edit: files.map(...) returning a string per entry, new bytes for "a"
\*   set:  files.set("a", "...") with a string
\*   drop: files.remove("b")
\*   same: returns its input map
WaypointLists == { << >>, <<"edit">>, <<"set", "drop">>, <<"same">> }

\* The value a waypoint returns: the input map itself, or a map of entries
\* that are Buffers, strings or something else.
WaypointOutput(kind, input, outcome) ==
  CASE outcome = "invalid" ->
         [same |-> FALSE,
          entries |-> [p \in DOMAIN input \cup {<<"a">>} |->
                         [t |-> "other", v |-> Undefined]]]
    [] kind = "same" ->
         [same |-> TRUE,
          entries |-> [p \in DOMAIN input |-> [t |-> "buffer", v |-> input[p]]]]
    [] kind = "edit" ->
         [same |-> FALSE,
          entries |-> [p \in DOMAIN input |->
                         [t |-> "string",
                          v |-> IF p = <<"a">> THEN <<2>> ELSE input[p]]]]
    [] kind = "set" ->
         [same |-> FALSE,
          entries |-> [p \in DOMAIN input \cup {<<"a">>} |->
                         IF p = <<"a">> THEN [t |-> "string", v |-> <<1>>]
                         ELSE [t |-> "buffer", v |-> input[p]]]]
    [] kind = "drop" ->
         [same |-> FALSE,
          entries |-> [p \in DOMAIN input \ {<<"b">>} |->
                         [t |-> "buffer", v |-> input[p]]]]

\* Buffer.isBuffer(contents) || isString(contents), for every entry
ValidContents(entries) ==
  \A p \in DOMAIN entries : entries[p].t \in {"buffer", "string"}

\* the normalised output: strings become Buffers, and the input's Buffer is
\* kept where the bytes are equal
Normalise(entries, input) ==
  [p \in DOMAIN entries |->
     IF Get(input, p) # Undefined /\ Get(input, p) = entries[p].v
       THEN input[p]
       ELSE entries[p].v]

\* every waypoint is given the build's initial input
InputKept(input, output) == input

\* input = output: the input of the next waypoint
NextInput(input, output) == output

\* the catch rethrows without clearing the flag
FlagStaysSet(flag) == flag

\* priv.building = false, in the catch around a waypoint
FlagAfterError(flag) == FALSE

\* every build that ends takes an id
CountAlways(count, ok, who) == count + 1

\* a rebuild of the watch loop takes an id even when it fails
CountFailedRebuilds(count, ok, who) ==
  IF ok \/ who = "watch" THEN count + 1 ELSE count

\* priv.buildCount after a build by `who` has ended: id: priv.buildCount++
\* is evaluated only for the Result of a build that succeeded
CountAfter(count, ok, who) == IF ok THEN count + 1 ELSE count

\* the guard is missing
GuardOff(flag) == FALSE

\* if (priv.building) throw new Error('Cannot do concurrent builds!')
BuildGuard(flag) == flag

\* every build-starting event carries a map
AlwaysMap(trig) == "map"

\* the triggers of a build-starting event: null or a map
TriggersOf(trig) == trig

\* emit(name, {triggers}): the events are counted by name, and the triggers
\* of the last build-starting event are kept
Emit(name, trig) ==
  /\ nStarting' = nStarting + (IF name = "build-starting" THEN 1 ELSE 0)
  /\ nComplete' = nComplete + (IF name = "build-complete" THEN 1 ELSE 0)
  /\ nFailed' = nFailed + (IF name = "build-failed" THEN 1 ELSE 0)
  /\ lastTriggers' = IF name = "build-starting" THEN TriggersOf(trig)
                     ELSE lastTriggers

\* build(priv, safeDelete) is called: up to its first await. With no
\* waypoints that is the call of destination.update. alsoPrime: the caller
\* goes on to call destination.prime().
BuildCalled(who, safeDelete, alsoPrime) ==
  /\ nCalls' = nCalls + 1
  /\ nOverlap' = nOverlap + (IF bPc # "none" THEN 1 ELSE 0)
  /\ UNCHANGED <<buildCount, lastId, throws>>
  /\ IF BuildGuard(building)
       THEN /\ nConcurrent' = nConcurrent + 1
            /\ idAtFailure' = IF who = "watch" THEN buildCount ELSE idAtFailure
            /\ destPrime' = IF alsoPrime THEN PrimeCalled(destPrime)
                            ELSE destPrime
            /\ UNCHANGED <<building, bPc, bWho, bI, bInput, bCur, bSafe,
                           bSteps, diskVars, destFiles, updVars>>
       ELSE /\ building' = TRUE
            /\ bWho' = who
            /\ bSafe' = safeDelete
            /\ bInput' = srcFiles
            /\ bCur' = srcFiles
            /\ bSteps' = << >>
            /\ bI' = 1
            /\ UNCHANGED <<nConcurrent, idAtFailure>>
            /\ IF Len(waypoints) = 0
                 THEN /\ bPc' = "sync"
                      /\ UpdateCalled(srcFiles, safeDelete)
                      /\ destPrime' = PrimeCalled(destPrime)
                 ELSE /\ bPc' = "waypoint"
                      /\ destPrime' = IF alsoPrime THEN PrimeCalled(destPrime)
                                      ELSE destPrime
                      /\ UNCHANGED <<diskVars, destFiles, updVars>>

\* The build in flight ends: its promise settles, and whoever awaits it
\* goes on (the watch loop emits its event and frees the chain).
BuildEnds(ok) ==
  /\ bPc' = "none"
  /\ idAtFailure' = IF ~ok /\ bWho = "watch" THEN buildCount ELSE idAtFailure
  /\ IF bWho = "first"
       THEN /\ firstBuild' = IF ok THEN "fulfilled" ELSE "rejected"
            /\ UNCHANGED <<chainBusy, emitVars>>
       ELSE /\ Emit(IF ok THEN "build-complete" ELSE "build-failed", "none")
            /\ chainBusy' = FALSE
            /\ UNCHANGED firstBuild

\* The waypoint awaited settles: it threw, or returned something that is no
\* map of contents, or its output is normalised and recorded; after the last
\* one destination.update is called.
WaypointSettles(outcome) ==
  /\ bPc = "waypoint"
  /\ LET out == WaypointOutput(waypoints[bI], bCur, outcome)
         fails == outcome = "throw" \/ (~out.same /\ ~ValidContents(out.entries))
         output == IF out.same THEN bCur ELSE Normalise(out.entries, bCur)
     IN /\ throws' = throws + (IF outcome = "ok" THEN 0 ELSE 1)
        /\ IF fails
             THEN /\ building' = FlagAfterError(building)
                  /\ buildCount' = CountAfter(buildCount, FALSE, bWho)
                  /\ BuildEnds(FALSE)
                  /\ UNCHANGED <<bI, bCur, bSteps, diskVars, destVars, updVars>>
             ELSE /\ bSteps' = Append(bSteps, [input |-> bCur, output |-> output])
                  /\ bCur' = NextInput(bCur, output)
                  /\ UNCHANGED <<building, buildCount, firstBuild, chainBusy,
                                 emitVars, idAtFailure>>
                  /\ IF bI < Len(waypoints)
                       THEN /\ bI' = bI + 1
                            /\ UNCHANGED <<bPc, diskVars, destVars, updVars>>
                       ELSE /\ bPc' = "sync"
                            /\ UpdateCalled(output, bSafe)
                            /\ destPrime' = PrimeCalled(destPrime)
                            /\ UNCHANGED bI
  /\ UNCHANGED <<lastId, bWho, bInput, bSafe, nCalls, nConcurrent, nOverlap>>
  /\ UNCHANGED <<dirVars, optVars, touchVars, srcVars, startVars, listening, triggers,
                 timerPending, queued, earlyUpdates, uncovered>>

\* destination.update has settled: the build returns its Result, or fails
\* with update's error.
BuildSettles ==
  /\ bPc = "sync"
  /\ uPc \in {"returned", "rejected"}
  /\ IF uPc = "returned"
       THEN /\ building' = FALSE
            /\ lastId' = buildCount
            /\ buildCount' = CountAfter(buildCount, TRUE, bWho)
            /\ BuildEnds(TRUE)
       ELSE /\ buildCount' = CountAfter(buildCount, FALSE, bWho)
            /\ BuildEnds(FALSE)
            /\ UNCHANGED <<building, lastId>>
  /\ UNCHANGED <<bWho, bI, bInput, bCur, bSafe, bSteps, nCalls, nConcurrent,
                 nOverlap, throws>>
  /\ UNCHANGED <<diskVars, destVars, updVars, dirVars, optVars, touchVars, srcVars, startVars,
                 listening, triggers, timerPending, queued, earlyUpdates,
                 uncovered>>

\* Automator#start is called: it waits for source.prime().
StartCalled ==
  /\ sPc = "idle"
  /\ sPc' = "primeSrc"
  /\ srcPrime' = PrimeCalled(srcPrime)
  /\ UNCHANGED <<diskVars, destVars, updVars, dirVars, optVars, touchVars, srcFiles, watcher,
                 closed, nEvents, startValue, buildVars, loopVars, emitVars>>

\* The Source's primePromise settles: the source directory, which exists
\* and holds `files`, is loaded with priv.limit; the load fails when the
\* limit is exceeded or on an error of the file system.
SourcePrimeSettles(files, fault) ==
  /\ srcPrime = "loading"
  /\ LET r == LoadDirectory(files, {Root}, limit, fault)
     IN IF r.error = "none"
          THEN srcPrime' = "done" /\ srcFiles' = r.files /\ srcSize' = r.size
          ELSE srcPrime' = "failed" /\ UNCHANGED <<srcFiles, srcSize>>
  /\ UNCHANGED <<now, ticks, filesLastTouched, nUpdated, rewriteGap,
                 rewriteEmitted, nErrors, raceVars>>
  /\ UNCHANGED <<diskVars, destVars, updVars, dirVars, optVars, watcher, closed,
                 nEvents, startVars, buildVars, loopVars, emitVars>>

\* start() after source.prime(): rejects if priming failed; otherwise emits
\* build-starting, calls build(priv, true) and destination.prime().
StartFirstBuild ==
  /\ sPc = "primeSrc"
  /\ srcPrime \in {"done", "failed"}
  /\ IF srcPrime = "failed"
       THEN /\ sPc' = "rejected"
            /\ UNCHANGED <<diskVars, destVars, updVars, buildVars, emitVars>>
       ELSE /\ sPc' = "primeDest"
            /\ Emit("build-starting", "null")
            /\ BuildCalled("first", TRUE, TRUE)
            /\ firstBuild' = IF BuildGuard(building) THEN "rejected"
                             ELSE "pending"
  /\ UNCHANGED <<dirVars, optVars, touchVars, srcVars, startValue, loopVars>>

\* source.watch(): the watcher is created once
WatchCalled(w) == IF w = "none" THEN "starting" ELSE w

\* start() after destination.prime(): starts the watcher if configured and
\* waits for build #0.
StartWatcher ==
  /\ sPc = "primeDest"
  /\ destPrime = "done"
  /\ sPc' = "awaitFirst"
  /\ watcher' = IF watch THEN WatchCalled(watcher) ELSE watcher
  /\ UNCHANGED <<diskVars, destVars, updVars, dirVars, optVars, touchVars, srcPrime, srcFiles,
                 closed, nEvents, startValue, buildVars, loopVars, emitVars>>

\* the first build failed and start() throws, watch or not
RethrowsAlways(watchOpt, outcome) ==
  IF outcome = "rejected" THEN "rejected"
  ELSE IF watchOpt THEN "awaitReady" ELSE "fulfilled"

\* where start() goes after build #0: with watch it waits for the watcher,
\* whatever the outcome; without, it returns the result or throws the error
AfterFirstBuild(watchOpt, outcome) ==
  IF watchOpt THEN "awaitReady"
  ELSE IF outcome = "fulfilled" THEN "fulfilled" ELSE "rejected"

\* start() after build #0: emits build-complete or build-failed; without
\* watch it returns the result or throws the error; with watch it keeps the
\* result or the error and waits for source.watch().
StartAfterFirstBuild ==
  /\ sPc = "awaitFirst"
  /\ firstBuild \in {"fulfilled", "rejected"}
  /\ Emit(IF firstBuild = "fulfilled" THEN "build-complete"
          ELSE "build-failed", "none")
  /\ startValue' = IF firstBuild = "fulfilled" THEN "result" ELSE "error"
  /\ sPc' = AfterFirstBuild(watch, firstBuild)
  /\ UNCHANGED <<diskVars, destVars, updVars, dirVars, optVars, touchVars, srcVars, buildVars,
                 loopVars>>

\* The watcher emits 'ready': watchPromise fulfils.
WatcherReady ==
  /\ watcher = "starting"
  /\ watcher' = "ready"
  /\ UNCHANGED <<diskVars, destVars, updVars, dirVars, optVars, touchVars, srcPrime, srcFiles,
                 closed, nEvents, startVars, buildVars, loopVars, emitVars>>

\* start() after source.watch(): attaches the 'updated' listener and
\* returns firstResult.
StartInstallsLoop ==
  /\ sPc = "awaitReady"
  /\ watcher = "ready"
  /\ listening' = TRUE
  /\ sPc' = "fulfilled"
  /\ UNCHANGED <<diskVars, destVars, updVars, dirVars, optVars, touchVars, srcVars, startValue,
                 buildVars, triggers, timerPending, queued, chainBusy,
                 earlyUpdates, uncovered, emitVars>>

\* now - priv.filesLastTouched[file], or 0 when there is no record
TimeSinceLastTouch(touched, file, time) ==
  IF touched[file] # 0 THEN time - touched[file] ELSE 0

\* a re-touch is reported from the quiet period on
EmitsAtQuietPeriod(changed, since) == changed \/ since >= QuietPeriod

\* if (changed || timeSinceLastTouch > 250)
EmitsUpdated(changed, since) == changed \/ since > QuietPeriod

\* the byte count is left as it was
SizeKept(size, oldContents) == size

\* priv.size -= contents.length, if the file is in the map
SizeAfterDelete(size, oldContents) ==
  IF oldContents # Undefined THEN size - Len(oldContents) ELSE size

\* if (oldContents) priv.size -= oldContents.length;
\* priv.size += contents.length
SizeAfterWrite(size, oldContents, contents) ==
  (IF oldContents # Undefined THEN size - Len(oldContents) ELSE size)
    + Len(contents)

\* the kind of the first event of a path is kept
FirstKindKept(trig, file, type) ==
  IF file \in DOMAIN trig THEN trig ELSE SetFile(trig, file, type)

\* triggers[file] = type, in the Automator's listener for 'updated'
TriggerRecorded(trig, file, type) == SetFile(trig, file, type)

\* every failed read is taken for a file that has gone missing
AnyReadError(contents) == contents \in {NotFound, Unreadable}

\* if (error.code === 'ENOENT'), in the catch around sander.readFile
ReadNotFound(contents) == contents = NotFound

\* A watcher event is handled by the Source. A delete removes the file from
\* the map, reduces the byte count, drops its record and emits 'updated'.
\* An add or change reads the file: if it is not found the file is removed
\* from the map and 'updated' is emitted; if it cannot be read 'error' is
\* emitted; otherwise the time is recorded, contents that differ from the
\* stored ones are counted and, unless the count exceeds the limit (the
\* handler throws), stored, and 'updated' is emitted unless it is a quick
\* re-touch without change. The Automator's listener, if attached, records
\* the trigger and calls the debounced handleUpdate.
SourceUpdated(type, file, contents) ==
  /\ watcher = "ready"
  /\ ~closed
  /\ nEvents < MaxEvents
  /\ nEvents' = nEvents + 1
  /\ LET oldContents == Get(srcFiles, file)
         deleted == type = "delete"
         missing == ~deleted /\ ReadNotFound(contents)
         read == ~deleted /\ contents \notin {NotFound, Unreadable}
         changed == read /\ contents # oldContents
         size == IF deleted THEN SizeAfterDelete(srcSize, oldContents)
                 ELSE IF changed
                   THEN SizeAfterWrite(srcSize, oldContents, contents)
                 ELSE srcSize
         thrown == changed /\ OverLimit(size, limit)
         since == TimeSinceLastTouch(filesLastTouched, file, now)
         emits == \/ deleted
                  \/ missing
                  \/ read /\ ~thrown /\ EmitsUpdated(changed, since)
         rewrite == read /\ ~changed /\ filesLastTouched[file] # 0
     IN /\ srcFiles' = IF deleted \/ missing THEN Remove(srcFiles, file)
                       ELSE IF changed /\ ~thrown
                         THEN SetFile(srcFiles, file, contents)
                       ELSE srcFiles
        /\ srcSize' = size
        /\ filesLastTouched' =
             [filesLastTouched EXCEPT ![file] = IF deleted THEN 0
                                                ELSE IF read THEN now
                                                ELSE @]
        /\ nErrors' = nErrors + (IF ~deleted /\ contents = Unreadable THEN 1
                                 ELSE 0)
        /\ nUpdated' = nUpdated + (IF emits THEN 1 ELSE 0)
        /\ rewriteGap' = IF rewrite THEN since ELSE rewriteGap
        /\ rewriteEmitted' = IF rewrite THEN emits ELSE rewriteEmitted
        /\ IF emits /\ listening
             THEN /\ triggers' = TriggerRecorded(triggers, file, type)
                  /\ timerPending' = TRUE
                  /\ uncovered' = uncovered \cup {file}
                  /\ UNCHANGED earlyUpdates
             ELSE /\ earlyUpdates' =
                       (earlyUpdates \/ (emits /\ bPc # "none" /\ bWho = "first"))
                  /\ UNCHANGED <<triggers, timerPending, uncovered>>
  /\ UNCHANGED <<now, ticks>>
  /\ UNCHANGED <<diskVars, destVars, updVars, dirVars, optVars, srcPrime, watcher,
                 closed, startVars, buildVars, listening, queued, chainBusy,
                 emitVars>>

\* Time passes between two events of the watcher.
Tick(ms) ==
  /\ ticks < MaxTicks
  /\ ticks' = ticks + 1
  /\ now' = now + ms
  /\ UNCHANGED <<filesLastTouched, nUpdated, rewriteGap, rewriteEmitted,
                 srcSize, nErrors, raceVars>>
  /\ UNCHANGED <<diskVars, destVars, updVars, dirVars, optVars, srcVars, startVars,
                 buildVars, loopVars, emitVars>>

\* the callback is not chained: it runs when the timer fires
ChainNoWait(busy) == TRUE

\* building.then(...): the next chained callback runs once the promise
\* before it has settled
ChainReady(busy) == ~busy

\* The 10ms debounce timer fires: handleUpdate chains a callback on the
\* `building` promise. A chained callback that is ready to run runs before
\* the timer can fire again.
TimerFires ==
  /\ timerPending
  /\ ~(queued > 0 /\ ChainReady(chainBusy))
  /\ timerPending' = FALSE
  /\ queued' = queued + 1
  /\ UNCHANGED <<diskVars, destVars, updVars, dirVars, optVars, touchVars, srcVars, startVars,
                 buildVars, listening, triggers, chainBusy, earlyUpdates,
                 uncovered, emitVars>>

\* the triggers are cleared before they are emitted
ClearedTriggers(trig) == EmptyStore

\* the triggers a chained callback emits with build-starting
EmittedTriggers(trig) == trig

\* A chained callback runs: it emits build-starting with the triggers,
\* clears them and calls build(priv). A build that throws at once is
\* reported build-failed by the callback's catch.
ChainRuns ==
  /\ queued > 0
  /\ ChainReady(chainBusy)
  /\ queued' = queued - 1
  /\ uncovered' = uncovered \ DOMAIN EmittedTriggers(triggers)
  /\ triggers' = EmptyStore
  /\ BuildCalled("watch", FALSE, FALSE)
  /\ UNCHANGED firstBuild
  /\ IF BuildGuard(building)
       THEN /\ nStarting' = nStarting + 1
            /\ nFailed' = nFailed + 1
            /\ lastTriggers' = TriggersOf("map")
            /\ UNCHANGED <<nComplete, chainBusy>>
       ELSE /\ Emit("build-starting", "map")
            /\ chainBusy' = TRUE
  /\ UNCHANGED <<dirVars, optVars, touchVars, srcVars, startVars, listening, timerPending,
                 earlyUpdates>>

\* Automator#stop: if (watch) source.stop(), which closes the watcher if
\* there is one.
Stop ==
  /\ ~closed
  /\ watch
  /\ watcher # "none"
  /\ closed' = TRUE
  /\ UNCHANGED <<diskVars, destVars, updVars, dirVars, optVars, touchVars, srcPrime, srcFiles,
                 watcher, nEvents, startVars, buildVars, loopVars, emitVars>>

\* ------------------------------------------------------- specifications

\* the source directory on disk is not followed
Unfollowed == EmptyStore

\* The clock, and a Source that has seen no event.
InitClock ==
  /\ now = 1 /\ ticks = 0
  /\ filesLastTouched = [p \in AutoPaths |-> 0]
  /\ nUpdated = 0
  /\ rewriteGap = -1 /\ rewriteEmitted = FALSE
  /\ srcSize = Size(srcFiles) /\ nErrors = 0
  /\ srcDisk = Unfollowed /\ reads = {} /\ nArrived = 0

\* No command line is run by the CLI.
NoCli ==
  /\ tasks = << >> /\ cliPc = "none" /\ taskIndex = 0
  /\ taskRunning = FALSE /\ failed = FALSE /\ exitCode = -1
  /\ called = << >> /\ finished = {}

\* The Automator's constructor is not under study: it was given the
\* working directory and two directories side by side in it.
NoCtor ==
  /\ ctorArgs = << >> /\ subdirOfSelf = FALSE
  /\ ctorPc = "constructed" /\ ctorError = "none"
  /\ cwd = <<"w">> /\ srcDir = <<"w", "s">> /\ destDir = <<"w", "o">>
  /\ created = TRUE

\* The Automator as constructed.
InitAutomator ==
  /\ srcPrime = "none" /\ srcFiles = EmptyStore
  /\ watcher = "none" /\ closed = FALSE /\ nEvents = 0
  /\ sPc = "idle" /\ startValue = "pending"
  /\ building = FALSE /\ buildCount = 0
  /\ bPc = "none" /\ bWho = "first" /\ bI = 1
  /\ bInput = EmptyStore /\ bCur = EmptyStore /\ bSafe = FALSE
  /\ bSteps = << >>
  /\ firstBuild = "none" /\ lastId = -1
  /\ listening = FALSE /\ triggers = EmptyStore
  /\ timerPending = FALSE /\ queued = 0 /\ chainBusy = FALSE
  /\ nStarting = 0 /\ nComplete = 0 /\ nFailed = 0
  /\ lastTriggers = "none"
  /\ nCalls = 0 /\ nConcurrent = 0 /\ nOverlap = 0
  /\ earlyUpdates = FALSE /\ uncovered = {} /\ throws = 0
  /\ InitClock /\ idAtFailure = -1

\* the initial disk is not recorded
Unrecorded == [files |-> EmptyStore, dirs |-> {}]

\* The Destination as constructed.
InitDestination ==
  /\ destPrime = "none"
  /\ destFiles = NotLoaded
  /\ destSize = -1 /\ nLoads = 0
  /\ uPc = "idle"
  /\ uOld = EmptyStore /\ uNew = EmptyStore /\ uSafe = FALSE
  /\ pendW = {} /\ pendD = {}
  /\ rmQueue = << >> /\ uChanges = << >>
  /\ uIo = 0 /\ uTried = {} /\ uMatched = FALSE
  /\ uCalls = 0 /\ uPrev = EmptyStore /\ faults = 0

\* SpecDest: the Destination on its own, update called with any store.
InitDest ==
  /\ \/ /\ diskFiles \in {f \in StoresOver(DestPaths) : OnDisk(f)}
        /\ diskDirs = DirsOf(diskFiles)
     \/ /\ diskFiles = EmptyStore
        /\ diskDirs = {}
  /\ InitDestination
  /\ InitAutomator
  /\ disk0 = Unrecorded
  /\ limit = DefaultLimit
  /\ NoCli /\ NoCtor
  /\ watch = FALSE /\ waypoints = << >>

NextDest ==
  \/ DUpdate
  \/ DPrime
  \/ DStart
  \/ DWrite
  \/ DDelete
  \/ DIoFulfils
  \/ DRmdir
  \/ DReturn

SpecDest == InitDest /\ [][NextDest]_vars

\* SpecRound: the Destination on a directory that exists, update(B) called
\* with any store B and then update(A) with the store A the directory held
\* at first; no disk operation fails for a reason outside the directory.
InitRound ==
  /\ diskFiles \in {f \in StoresOver(DestPaths) : OnDisk(f)}
  /\ diskDirs = DirsOf(diskFiles)
  /\ InitDestination
  /\ InitAutomator
  /\ disk0 = [files |-> diskFiles, dirs |-> diskDirs]
  /\ limit = DefaultLimit
  /\ NoCli /\ NoCtor
  /\ watch = FALSE /\ waypoints = << >>

RoundUpdate ==
  /\ uPc \in {"idle", "returned", "rejected"}
  /\ pendW = {} /\ pendD = {}
  /\ uCalls < MaxUpdates
  /\ \E newFiles \in (IF uCalls = 0 THEN StoresOver(DestPaths)
                       ELSE {disk0.files}) :
       \E safeDelete \in BOOLEAN : UpdateCalled(newFiles, safeDelete)
  /\ destPrime' = PrimeCalled(destPrime)
  /\ UNCHANGED <<dirVars, autoVars>>

RoundWrite ==
  /\ \E file \in pendW : WriteSettles(file, FALSE)
  /\ UNCHANGED <<dirVars, autoVars>>

RoundDelete ==
  /\ \E file \in pendD : DeleteSettles(file, FALSE)
  /\ UNCHANGED <<dirVars, autoVars>>

NextRound ==
  \/ RoundUpdate
  \/ DPrime
  \/ DStart
  \/ RoundWrite
  \/ RoundDelete
  \/ DIoFulfils
  \/ DRmdir
  \/ DReturn

SpecRound == InitRound /\ [][NextRound]_vars

\* Spec: one Automator, start() called once, watcher events at any time.
\* The source directories loaded by priming.
InitSources ==
  { EmptyStore,
    [p \in {<<"a">>} |-> <<1>>],
    [p \in {<<"a">>, <<"b">>} |-> <<1>>] }

\* The destination directory before start(): missing, or holding files.
InitDestDisks ==
  { [p \in {<<"b">>} |-> <<1>>],
    [p \in {<<"a">>, <<"b">>} |-> <<2>>] }

Init ==
  /\ \/ /\ diskFiles \in InitDestDisks
        /\ diskDirs = DirsOf(diskFiles)
     \/ /\ diskFiles = EmptyStore
        /\ diskDirs = {}
  /\ InitDestination
  /\ InitAutomator
  /\ disk0 = Unrecorded
  /\ limit \in {SmallLimit, DefaultLimit}
  /\ NoCli /\ NoCtor
  /\ watch \in BOOLEAN
  /\ waypoints \in WaypointLists

Start == StartCalled

PrimeSource ==
  \E files \in InitSources : SourcePrimeSettles(files, "none")

RunWaypoint ==
  \E outcome \in {"ok"} \cup (IF throws < MaxThrows THEN {"throw", "invalid"}
                              ELSE {}) :
    WaypointSettles(outcome)

\* The watcher reports a file deleted, added, or changed to other bytes.
WatchEvent ==
  /\ \E file \in AutoPaths :
       \/ SourceUpdated("delete", file, Undefined)
       \/ /\ file \notin DOMAIN srcFiles
          /\ SourceUpdated("add", file, <<1>>)
       \/ /\ file \in DOMAIN srcFiles
          /\ \E contents \in Contents \ {srcFiles[file]} :
               SourceUpdated("change", file, contents)
  /\ UNCHANGED raceVars

Next ==
  \/ Start
  \/ PrimeSource
  \/ StartFirstBuild
  \/ DPrime
  \/ StartWatcher
  \/ RunWaypoint
  \/ DStart
  \/ DWrite
  \/ DDelete
  \/ DIoFulfils
  \/ DRmdir
  \/ DReturn
  \/ BuildSettles
  \/ StartAfterFirstBuild
  \/ WatcherReady
  \/ StartInstallsLoop
  \/ WatchEvent
  \/ TimerFires
  \/ ChainRuns
  \/ Stop

Spec == Init /\ [][Next]_vars

\* the steps that the event loop is bound to take: timers fire, promise
\* callbacks run, disk operations and waypoints settle
Progress ==
  \/ StartFirstBuild
  \/ DPrime
  \/ StartWatcher
  \/ RunWaypoint
  \/ DStart
  \/ DWrite
  \/ DDelete
  \/ DIoFulfils
  \/ DRmdir
  \/ DReturn
  \/ BuildSettles
  \/ StartAfterFirstBuild
  \/ StartInstallsLoop
  \/ TimerFires
  \/ ChainRuns

\* FairSpec: an Automator in watch mode with at most one waypoint and one
\* file in its destination, where every build terminates and the debounce
\* timer and the chained callbacks get their turn.
InitWatch ==
  /\ Init
  /\ limit = DefaultLimit
  /\ watch
  /\ waypoints \in { << >>, <<"edit">> }
  /\ DOMAIN diskFiles = {<<"b">>}

FairSpec == InitWatch /\ [][Next]_vars /\ WF_vars(Progress)

\* SpecBuild: build(priv, safeDelete) called at any time, also while a
\* build is in flight, on an Automator whose Source is primed.
InitBuild ==
  /\ \/ /\ diskFiles \in InitDestDisks
        /\ diskDirs = DirsOf(diskFiles)
     \/ /\ diskFiles = EmptyStore
        /\ diskDirs = {}
  /\ InitDestination
  /\ disk0 = Unrecorded
  /\ limit = DefaultLimit
  /\ NoCli /\ NoCtor
  /\ srcPrime = "done" /\ srcFiles \in InitSources
  /\ watcher = "none" /\ closed = FALSE /\ nEvents = 0
  /\ sPc = "idle" /\ startValue = "pending"
  /\ building = FALSE /\ buildCount = 0
  /\ bPc = "none" /\ bWho = "first" /\ bI = 1
  /\ bInput = EmptyStore /\ bCur = EmptyStore /\ bSafe = FALSE
  /\ bSteps = << >>
  /\ firstBuild = "none" /\ lastId = -1
  /\ listening = FALSE /\ triggers = EmptyStore
  /\ timerPending = FALSE /\ queued = 0 /\ chainBusy = FALSE
  /\ nStarting = 0 /\ nComplete = 0 /\ nFailed = 0
  /\ lastTriggers = "none"
  /\ nCalls = 0 /\ nConcurrent = 0 /\ nOverlap = 0
  /\ earlyUpdates = FALSE /\ uncovered = {} /\ throws = 0
  /\ InitClock /\ idAtFailure = -1
  /\ watch = FALSE
  /\ waypoints \in WaypointLists

CallBuild ==
  /\ nCalls < MaxCalls
  /\ \E safeDelete \in BOOLEAN : BuildCalled("first", safeDelete, FALSE)
  /\ firstBuild' = IF BuildGuard(building) THEN firstBuild ELSE "pending"
  /\ UNCHANGED <<dirVars, optVars, touchVars, srcVars, startVars, loopVars, emitVars>>

NextBuild ==
  \/ CallBuild
  \/ DPrime
  \/ RunWaypoint
  \/ DStart
  \/ DWrite
  \/ DDelete
  \/ DIoFulfils
  \/ DRmdir
  \/ DReturn
  \/ BuildSettles

SpecBuild == InitBuild /\ [][NextBuild]_vars

\* SpecSource: a primed Source whose watcher is ready; the watcher reports
\* deletions and writes of any bytes, also the stored ones, as time passes.
InitSource ==
  /\ diskFiles = EmptyStore /\ diskDirs = {Root}
  /\ InitDestination
  /\ disk0 = Unrecorded
  /\ limit \in {SmallLimit, DefaultLimit}
  /\ NoCli /\ NoCtor
  /\ srcPrime = "done" /\ srcFiles \in InitSources
  /\ watcher = "ready" /\ closed = FALSE /\ nEvents = 0
  /\ sPc = "idle" /\ startValue = "pending"
  /\ building = FALSE /\ buildCount = 0
  /\ bPc = "none" /\ bWho = "first" /\ bI = 1
  /\ bInput = EmptyStore /\ bCur = EmptyStore /\ bSafe = FALSE
  /\ bSteps = << >>
  /\ firstBuild = "none" /\ lastId = -1
  /\ listening = FALSE /\ triggers = EmptyStore
  /\ timerPending = FALSE /\ queued = 0 /\ chainBusy = FALSE
  /\ nStarting = 0 /\ nComplete = 0 /\ nFailed = 0
  /\ lastTriggers = "none"
  /\ nCalls = 0 /\ nConcurrent = 0 /\ nOverlap = 0
  /\ earlyUpdates = FALSE /\ uncovered = {} /\ throws = 0
  /\ InitClock /\ idAtFailure = -1
  /\ watch = TRUE
  /\ waypoints = << >>
  /\ ~OverLimit(Size(srcFiles), limit)

\* Half the quiet period passes, or a millisecond more.
TimePasses == \E ms \in {QuietPeriod \div 2, QuietPeriod \div 2 + 1} : Tick(ms)

\* What reading a file reported by the watcher gives: its bytes, of one
\* length or another, or a rejection.
ReadResults == Contents \cup { <<1, 2>>, NotFound, Unreadable }

\* The watcher reports a file deleted, or written with any bytes; the file
\* may be gone or unreadable when it is read.
AnyWatchEvent ==
  /\ \E file \in AutoPaths :
       \/ SourceUpdated("delete", file, Undefined)
       \/ \E contents \in ReadResults :
            SourceUpdated(IF file \in DOMAIN srcFiles THEN "change" ELSE "add",
                          file, contents)
  /\ UNCHANGED raceVars

NextSource ==
  \/ TimePasses
  \/ AnyWatchEvent

SpecSource == InitSource /\ [][NextSource]_vars

\* ----------------------------------------- the Source and its directory

\* a read that the disk has not served yet
Pending == << -4 >>

\* what sander.readFile gives for a path of the directory: its bytes, or
\* the rejection with ENOENT
ReadOf(disk, file) == IF file \in DOMAIN disk THEN disk[file] ELSE NotFound

\* A file of the source directory is written with other bytes. The watcher
\* reports it added or changed, with its stat, and the handler runs up to
\* its await of sander.readFile.
FileWritten(file, contents) ==
  /\ watcher = "ready" /\ ~closed
  /\ nArrived < MaxEvents
  /\ contents # Get(srcDisk, file)
  /\ srcDisk' = SetFile(srcDisk, file, contents)
  /\ nArrived' = nArrived + 1
  /\ reads' = reads \cup
       { [id |-> nArrived + 1,
          type |-> IF file \in DOMAIN srcDisk THEN "change" ELSE "add",
          file |-> file,
          result |-> Pending] }
  /\ UNCHANGED <<now, ticks, filesLastTouched, nUpdated, rewriteGap,
                 rewriteEmitted, srcSize, nErrors>>
  /\ UNCHANGED <<diskVars, destVars, updVars, dirVars, optVars, srcVars,
                 startVars, buildVars, loopVars, emitVars>>

\* A file of the source directory is deleted. The watcher reports it
\* without a stat, and the handler runs to its end: it awaits nothing.
FileDeleted(file) ==
  /\ file \in DOMAIN srcDisk
  /\ nArrived < MaxEvents
  /\ srcDisk' = Remove(srcDisk, file)
  /\ nArrived' = nArrived + 1
  /\ SourceUpdated("delete", file, Undefined)
  /\ UNCHANGED reads

\* The disk serves the read of a waiting handler: the file's bytes at that
\* moment, or ENOENT.
ReadSettles(r) ==
  /\ r \in reads
  /\ r.result = Pending
  /\ reads' = (reads \ {r}) \cup {[r EXCEPT !.result = ReadOf(srcDisk, r.file)]}
  /\ UNCHANGED <<srcDisk, nArrived>>
  /\ UNCHANGED <<now, ticks, filesLastTouched, nUpdated, rewriteGap,
                 rewriteEmitted, srcSize, nErrors>>
  /\ UNCHANGED <<diskVars, destVars, updVars, dirVars, optVars, srcVars,
                 startVars, buildVars, loopVars, emitVars>>

\* A handler whose read has been served resumes after its await and runs
\* to its end. The handlers resume in any order.
HandlerResumes(r) ==
  /\ r \in reads
  /\ r.result # Pending
  /\ SourceUpdated(r.type, r.file, r.result)
  /\ reads' = reads \ {r}
  /\ UNCHANGED <<srcDisk, nArrived>>

\* SpecRace: a Source that has been primed and is watching, with the
\* directory it watches; files are written and deleted while handlers of
\* earlier events wait for their reads.
InitRace ==
  /\ diskFiles = EmptyStore /\ diskDirs = {Root}
  /\ InitDestination
  /\ disk0 = Unrecorded
  /\ limit = DefaultLimit
  /\ NoCli /\ NoCtor
  /\ srcPrime = "done" /\ srcFiles \in InitSources
  /\ watcher = "ready" /\ closed = FALSE /\ nEvents = 0
  /\ sPc = "idle" /\ startValue = "pending"
  /\ building = FALSE /\ buildCount = 0
  /\ bPc = "none" /\ bWho = "first" /\ bI = 1
  /\ bInput = EmptyStore /\ bCur = EmptyStore /\ bSafe = FALSE
  /\ bSteps = << >>
  /\ firstBuild = "none" /\ lastId = -1
  /\ listening = FALSE /\ triggers = EmptyStore
  /\ timerPending = FALSE /\ queued = 0 /\ chainBusy = FALSE
  /\ nStarting = 0 /\ nComplete = 0 /\ nFailed = 0
  /\ lastTriggers = "none"
  /\ nCalls = 0 /\ nConcurrent = 0 /\ nOverlap = 0
  /\ earlyUpdates = FALSE /\ uncovered = {} /\ throws = 0
  /\ idAtFailure = -1
  /\ now = 1 /\ ticks = 0
  /\ filesLastTouched = [p \in AutoPaths |-> 0]
  /\ nUpdated = 0
  /\ rewriteGap = -1 /\ rewriteEmitted = FALSE
  /\ srcSize = Size(srcFiles) /\ nErrors = 0
  /\ srcDisk = srcFiles /\ reads = {} /\ nArrived = 0
  /\ watch = TRUE
  /\ waypoints = << >>

WriteFile == \E file \in AutoPaths : \E contents \in Contents :
  FileWritten(file, contents)

DeleteFile == \E file \in AutoPaths : FileDeleted(file)

ServeRead == \E r \in reads : ReadSettles(r)

ResumeHandler == \E r \in reads : HandlerResumes(r)

NextRace ==
  \/ WriteFile
  \/ DeleteFile
  \/ ServeRead
  \/ ResumeHandler

SpecRace == InitRace /\ [][NextRace]_vars

\* ------------------------------------------------- claims on the Automator

\* no build is in flight, no rebuild is scheduled or queued, start() is done
Quiescent ==
  /\ sPc = "fulfilled"
  /\ listening
  /\ bPc = "none"
  /\ ~timerPending
  /\ queued = 0
  /\ ~chainBusy

\* C1: in every execution of one Automator at most one build() is in
\* flight: build() is never called between the start and the end of another
\* build.
C1_OneBuildInFlight == nOverlap = 0

\* C1 happens: a rebuild is in flight while another is queued behind it and
\* the debounce timer is armed again.
C1_Witness ==
  /\ bPc # "none" /\ bWho = "watch"
  /\ queued > 0
  /\ timerPending

\* C2: a build() called while another build is in flight throws the
\* concurrent-build error at once and changes nothing of the build in
\* flight: the building flag stays set, buildCount, the Destination's store
\* and disk and the build's own progress are as they were.
C2_ConcurrentCallRejected ==
  [][(nCalls' = nCalls + 1 /\ bPc # "none") =>
       /\ nConcurrent' = nConcurrent + 1
       /\ building /\ building'
       /\ UNCHANGED <<buildCount, lastId, destVars, diskVars, updVars, bPc,
                      bWho, bI, bInput, bCur, bSafe, bSteps, firstBuild>>]_vars

\* C2 happens: a call was made during a build and rejected, and the build
\* in flight went on to return its Result.
C2_Witness ==
  /\ nOverlap >= 1
  /\ nConcurrent = nOverlap
  /\ bPc = "none"
  /\ firstBuild = "fulfilled"
  /\ lastId = 0
  /\ uIo > 0

\* C3 (as claimed): the number of rebuilds scheduled behind a build in
\* flight and not yet started never exceeds 1.
C3_AtMostOneQueued == queued <= 1

\* C4: once the watch loop is installed, every 'updated' event for a path is
\* eventually followed by a build-starting event whose triggers hold that
\* path.
C4_EveryUpdateBuilt ==
  \A p \in AutoPaths : (p \in uncovered) ~> (p \notin uncovered)

\* C4 happens: updated paths were emitted with a build-starting of the loop.
C4_Witness ==
  /\ listening
  /\ nEvents >= 2
  /\ nStarting >= 2
  /\ uncovered = {}
  /\ bPc # "none" /\ bWho = "watch"

\* C5 (as claimed): an 'updated' event emitted while build #0 is in flight
\* causes a follow-up build: once everything has come to rest, a second
\* build has started.
C5_EarlyUpdateRebuilt ==
  (Quiescent /\ ~closed /\ earlyUpdates) => nStarting >= 2

\* C6 (as claimed): in watch mode the Automator stays usable after a failed
\* build: no build started by an 'updated' event fails with the
\* concurrent-build error.
C6_UsableAfterFailure == watch => nConcurrent = 0

Differing(oldFiles, newFiles) ==
  {p \in Paths : Get(oldFiles, p) # Get(newFiles, p)}

\* the positions of a change list that are about one path
ChangesFor(changes, p) == {i \in 1..Len(changes) : changes[i].file = p}

\* C8: after update(newStore) succeeds on a primed destination whose disk
\* matched its previous store, the regular files under the destination root
\* and their bytes are exactly newStore.
C8_DiskMirrorsNewStore ==
  (uPc = "returned" /\ uMatched) => diskFiles = uNew

\* C8 happens: an update that wrote and deleted has returned.
C8_Witness ==
  /\ uPc = "returned" /\ uMatched
  /\ WriteSet(uOld, uNew) # {}
  /\ DeleteSet(uOld, uNew) # {}
  /\ uIo > 0

\* The same after a successful start() without watch: the destination holds
\* the output of the last waypoint, computed from the primed source.
StartOutputOnDisk ==
  (~watch /\ sPc = "fulfilled") =>
    /\ diskFiles = bCur
    /\ destFiles = bCur
    /\ bInput = srcFiles
    /\ Len(bSteps) = Len(waypoints)
    /\ bCur = IF bSteps = << >> THEN bInput ELSE bSteps[Len(bSteps)].output

\* C9: a successful update returns exactly one Change per differing path and
\* none for equal paths, typed add / modify / delete by where the path is,
\* and every add or modify Change precedes every delete Change.
C9_ChangeList ==
  uPc = "returned" =>
    /\ \A p \in Paths :
         Cardinality(ChangesFor(uChanges, p)) =
           IF p \in Differing(uOld, uNew) THEN 1 ELSE 0
    /\ \A i \in 1..Len(uChanges) :
         LET p == uChanges[i].file IN
           uChanges[i].type =
             IF p \notin DOMAIN uOld THEN "add"
             ELSE IF p \notin DOMAIN uNew THEN "delete"
             ELSE "modify"
    /\ \A i \in 1..Len(uChanges) : \A j \in 1..Len(uChanges) :
         (uChanges[i].type = "delete" /\ uChanges[j].type # "delete")
           => j < i

\* C9 happens: a returned list holds an add, a modify and a delete.
C9_Witness ==
  /\ uPc = "returned"
  /\ \E i \in 1..Len(uChanges) : uChanges[i].type = "add"
  /\ \E i \in 1..Len(uChanges) : uChanges[i].type = "modify"
  /\ \E i \in 1..Len(uChanges) : uChanges[i].type = "delete"

\* C10: update(store) called with the store of the previous call, or with
\* any store equal to the Destination's current store, returns an empty
\* Change list and performs no disk write, delete or rmdir.
C10_SameStoreNoWork ==
  /\ (uCalls >= 2 /\ uPc \notin {"idle", "priming"} /\ uNew = uPrev) =>
       (uPc = "returned" /\ uChanges = << >> /\ uIo = 0)
  /\ (uCalls >= 1 /\ uPc \notin {"idle", "priming"} /\ uNew = uOld) =>
       (uPc = "returned" /\ uChanges = << >> /\ uIo = 0)

\* C10 happens: a sync that changed the disk was followed by a second call
\* with the same store.
C10_Witness ==
  /\ uCalls = 2 /\ uPc = "returned"
  /\ uNew = uPrev
  /\ uNew # EmptyStore
  /\ diskFiles = uNew

\* two stores that no path of which is a directory of a path of the other
Compatible(oldFiles, newFiles) ==
  \A p \in DOMAIN oldFiles \cup DOMAIN newFiles :
    \A q \in DOMAIN oldFiles \cup DOMAIN newFiles : ~Subdir(p, q)

\* the update has settled and none of its disk operations is still running
Settled == uPc \in {"returned", "rejected"} /\ pendW = {} /\ pendD = {}

\* C11 (as claimed): from a destination whose disk and store are A,
\* update(B) and then update(A) both succeed, and the files, their bytes and
\* the directories, the root included, are as before the first update.
C11_RoundTrip ==
  /\ (uCalls = 1 /\ Compatible(disk0.files, uNew)) => uPc # "rejected"
  /\ (uCalls = 2 /\ Compatible(disk0.files, uPrev)) =>
       /\ uPc # "rejected"
       /\ uPc = "returned" =>
            (diskFiles = disk0.files /\ diskDirs = disk0.dirs)

\* the directories below the root that held files of the old store and hold
\* none of the new one
EmptiedDirs(oldFiles, newFiles) ==
  (DirsOf(oldFiles) \ DirsOf(newFiles)) \ {Root}

\* C12 (as claimed): an update that deletes every file of a nested directory
\* succeeds; the directory and its emptied ancestors are gone and every
\* directory that still holds a file remains.
C12_EmptiedDirsRemoved ==
  (Settled /\ uMatched /\ faults = 0
     /\ Compatible(uOld, uNew) /\ EmptiedDirs(uOld, uNew) # {}) =>
    /\ uPc = "returned"
    /\ diskDirs \ {Root} = DirsOf(uNew) \ {Root}

\* C13 (as claimed): update never calls rmdir on the destination root, and
\* the root exists from priming on.
C13_RootNeverRemoved ==
  /\ Root \notin uTried
  /\ destPrime = "done" => Root \in diskDirs

\* ------------------------------------- claims on builds and on the Source

\* C14 (as claimed): the first Destination.update call of an Automator is
\* made with safeDelete true, and every later one with safeDelete false.
C14_FirstSyncSafe ==
  /\ uCalls = 1 => uSafe
  /\ uCalls >= 2 => ~uSafe

\* the normalised output of waypoint i for an input
StepOutput(i, input) ==
  LET out == WaypointOutput(waypoints[i], input, "ok")
  IN IF out.same THEN input ELSE Normalise(out.entries, input)

\* C15: within one build the waypoints run in list order: steps[i] is the
\* work of waypoint i, its input is the normalised output of steps[i-1] (the
\* Source's store for the first), and the waypoint awaited is the one after
\* the last recorded step, given that step's output.
C15_WaypointsInOrder ==
  /\ Len(bSteps) <= Len(waypoints)
  /\ \A i \in 1..Len(bSteps) :
       /\ bSteps[i].input = IF i = 1 THEN bInput ELSE bSteps[i - 1].output
       /\ bSteps[i].output = StepOutput(i, bSteps[i].input)
  /\ bPc = "waypoint" =>
       /\ bI = Len(bSteps) + 1
       /\ bCur = IF bI = 1 THEN bInput ELSE bSteps[bI - 1].output
  /\ bPc = "sync" =>
       /\ Len(bSteps) = Len(waypoints)
       /\ uNew = IF bSteps = << >> THEN bInput
                 ELSE bSteps[Len(bSteps)].output

\* C15 happens: the second waypoint got an output of the first that differs
\* from the build's input, and the build went on to the sync.
C15_Witness ==
  /\ bPc = "sync"
  /\ Len(bSteps) = 2
  /\ bSteps[1].output # bInput
  /\ bSteps[2].input = bSteps[1].output

\* C16: when the waypoint awaited throws, rejects or returns invalid
\* contents, the build ends as failed in that step: no later waypoint runs,
\* Destination.update is not called, the store and the disk stay as they
\* are, no id is taken, and the building flag is cleared.
C16_WaypointFailureAborts ==
  [][(bPc = "waypoint" /\ throws' = throws + 1) =>
       /\ bPc' = "none"
       /\ ~building'
       /\ firstBuild' = "rejected"
       /\ UNCHANGED <<diskVars, destVars, updVars, buildCount, lastId,
                      bSteps, bI>>]_vars

\* C16 happens: the second waypoint failed after the first had run, and
\* update was never called.
C16_Witness ==
  /\ throws = 1
  /\ bPc = "none"
  /\ firstBuild = "rejected"
  /\ ~building
  /\ Len(bSteps) = 1 /\ bI = 2
  /\ uCalls = 0

\* a path whose bytes no waypoint of the build changed
KeptByWaypoints(p) ==
  \A i \in 1..Len(bSteps) : Get(bSteps[i].input, p) = Get(bSteps[i].output, p)

\* the sync of the build in flight has compared the stores
Syncing == bPc = "sync" /\ uPc \in {"io", "rmdir", "returned"}

\* C17 (as claimed): a path whose bytes the waypoints returned equal to the
\* bytes they were given is not written by the build's sync and has no
\* Change.
C17_KeptBytesNotWritten ==
  (Syncing /\ bSteps # << >>) =>
    \A p \in DOMAIN uNew :
      KeptByWaypoints(p) => (p \notin pendW /\ ChangesFor(uChanges, p) = {})

\* C17 (amended): a path whose bytes in the build's final output equal the
\* bytes the Destination's store holds for it is not written by the build's
\* sync and has no Change, whatever objects the waypoints returned.
C17_StoredBytesNotWritten ==
  Syncing =>
    \A p \in DOMAIN uNew :
      Get(uOld, p) = uNew[p] =>
        (p \notin pendW /\ ChangesFor(uChanges, p) = {})

\* C17 happens: a rebuild whose waypoint returned new strings synced one
\* change and left alone a path that the waypoint had changed from its
\* input to the bytes already stored.
C17_Witness ==
  /\ bWho = "watch"
  /\ bPc = "sync" /\ uPc = "returned"
  /\ waypoints = <<"edit">>
  /\ Len(uChanges) = 1
  /\ \E p \in DOMAIN uNew :
       /\ Get(uOld, p) = uNew[p]
       /\ Get(bInput, p) # uNew[p]

\* C18: a write of the bytes already stored, to a file with a record of an
\* earlier write, emits no 'updated' when it comes within 250ms of that
\* write and emits one when it comes more than 250ms after it; the write
\* that changed the bytes had emitted one.
C18_QuickRetouch ==
  /\ (rewriteGap >= 0 /\ rewriteGap <= 250) => ~rewriteEmitted
  /\ rewriteGap > 250 => rewriteEmitted
  /\ nUpdated <= nEvents

\* C18 happens: a write that changed the bytes and, exactly 250ms later, a
\* write of the same bytes gave one 'updated' event.
C18_Witness ==
  /\ nEvents = 2
  /\ nUpdated = 1
  /\ rewriteGap = 250
  /\ ~rewriteEmitted

\* the builds that have returned a Result: those reported build-complete,
\* and build #0 between its end and start()'s report
Succeeded ==
  nComplete + (IF firstBuild = "fulfilled" /\ startValue = "pending"
                 THEN 1 ELSE 0)

\* C19: the successful builds of an Automator have the ids 0, 1, 2, ...: the
\* last id given is the number of successful builds so far less one, also
\* when build #0 has failed.
C19_IdsCountSuccesses ==
  /\ lastId + 1 = Succeeded
  /\ buildCount = lastId + 1

\* C19 happens: build #0 failed and the first rebuild to succeed got id 0.
C19_Witness ==
  /\ firstBuild = "rejected"
  /\ nFailed >= 1
  /\ nComplete = 1
  /\ lastId = 0

\* C20 (as claimed): the id a failed rebuild would have had is consumed: no
\* later successful build gets it.
C20_FailedRebuildTakesId ==
  idAtFailure # -1 => lastId # idAtFailure

\* C20 (amended): a failed rebuild takes no id: it leaves buildCount as it
\* is, and the next build to succeed gets the id the failed one would have
\* had.
C20_FailedRebuildKeepsId ==
  [][/\ (idAtFailure' # idAtFailure) =>
          (buildCount' = buildCount /\ lastId' = lastId
             /\ idAtFailure' = buildCount)
     /\ (lastId' # lastId /\ idAtFailure # -1 /\ lastId < idAtFailure) =>
          lastId' = idAtFailure]_vars

\* C20 happens: build #0 got id 0, a rebuild failed, and the next rebuild
\* succeeded with id 1.
C20_Witness ==
  /\ firstBuild = "fulfilled"
  /\ idAtFailure = 1
  /\ lastId = 1
  /\ nComplete = 2
  /\ nFailed = 1

\* ------------------------------------------- claims on the update's return

\* C28: Destination.update neither fulfils nor rejects while a write or a
\* deletion it issued is still running: once it has settled, none of its
\* disk operations is pending.
C28_AllSettledOnReturn ==
  uPc \in {"returned", "rejected"} => (pendW = {} /\ pendD = {})

\* --------------------------------------------------- claims on Directory

\* Destination#update when this.prime() rejects: the coroutine throws at its
\* first yield, before anything is compared or written.
UpdateRejectsUnprimed ==
  /\ uPc = "priming"
  /\ destPrime = "failed"
  /\ uPc' = "rejected"
  /\ UNCHANGED <<diskVars, destVars, uOld, uNew, uSafe, pendW, pendD, rmQueue,
                 uChanges, uIo, uTried, uMatched, uCalls, uPrev, faults>>
  /\ UNCHANGED <<dirVars, autoVars>>

\* SpecDir: one Destination on a directory that is missing, empty or holds
\* files; prime() and update() are called at any time, also while the load
\* is in flight, and the load may fail.
InitDir ==
  /\ \/ /\ diskFiles \in InitDestDisks \cup {EmptyStore}
        /\ diskDirs = DirsOf(diskFiles)
     \/ /\ diskFiles = EmptyStore
        /\ diskDirs = {}
  /\ InitDestination
  /\ InitAutomator
  /\ disk0 = [files |-> diskFiles, dirs |-> diskDirs]
  /\ limit = DefaultLimit
  /\ NoCli /\ NoCtor
  /\ watch = FALSE /\ waypoints = << >>

\* prime() is called from outside.
DirPrime ==
  /\ destPrime' = PrimeCalled(destPrime)
  /\ UNCHANGED <<diskVars, destFiles, updVars, dirVars, autoVars>>

\* The load settles, with or without an error of the file system.
DirLoads ==
  /\ \E fault \in LoadFaults : DestPrimeSettles(fault)
  /\ UNCHANGED autoVars

DirUpdate ==
  /\ uPc \in {"idle", "returned", "rejected"}
  /\ pendW = {} /\ pendD = {}
  /\ uCalls < MaxUpdates
  /\ \E newFiles \in StoresOver(AutoPaths) : UpdateCalled(newFiles, FALSE)
  /\ destPrime' = PrimeCalled(destPrime)
  /\ UNCHANGED <<dirVars, autoVars>>

NextDir ==
  \/ DirPrime
  \/ DirLoads
  \/ DirUpdate
  \/ UpdateRejectsUnprimed
  \/ DStart
  \/ RoundWrite
  \/ RoundDelete
  \/ DIoFulfils
  \/ DRmdir
  \/ DReturn

SpecDir == InitDir /\ [][NextDir]_vars

\* C23: priming a Directory whose root does not exist succeeds, creates the
\* root and gives the empty store and size 0; any other error of the load,
\* a missing path below the root included, makes prime() reject and leaves
\* the store and the size unset.
C23_MissingRootCreated ==
  [][\A fault \in LoadFaults :
       DestPrimeSettles(fault) =>
         IF fault = "other" \/ (fault = "below" /\ Root \in diskDirs)
           THEN /\ destPrime' = "failed"
                /\ destFiles' = NotLoaded
                /\ destSize' = -1
                /\ diskDirs' = diskDirs
         ELSE IF Root \notin diskDirs
           THEN /\ destPrime' = "done"
                /\ destFiles' = EmptyStore
                /\ destSize' = 0
                /\ Root \in diskDirs'
         ELSE /\ destPrime' = "done"
              /\ destFiles' = diskFiles
              /\ destSize' = Size(diskFiles)]_vars

\* C23 happens: the directory was missing, and the Destination is primed
\* with the empty store on the directory it created.
C23_Witness ==
  /\ disk0.dirs = {}
  /\ destPrime = "done"
  /\ destFiles = EmptyStore
  /\ destSize = 0
  /\ Root \in diskDirs
  /\ uCalls = 0

\* C24: the directory of one Directory instance is read from disk at most
\* once, however often and in whatever interleaving prime() is called:
\* not before the first call, once when the promise has settled, and never
\* again after that, whether the load succeeded or failed.
C24_LoadedAtMostOnce ==
  /\ nLoads <= 1
  /\ destPrime \in {"none", "loading"} => nLoads = 0
  /\ destPrime \in {"done", "failed"} => nLoads = 1

\* C24 happens: the load failed, and a second update() that called prime()
\* again was rejected without another load.
C24_Witness ==
  /\ destPrime = "failed"
  /\ uCalls = 2
  /\ uPc = "rejected"
  /\ nLoads = 1

\* ------------------------------------------- claims on the Source's limit

\* C22: if the files of the source directory exceed the byte limit when the
\* Source is primed, start() rejects, with watch and without: a Source is
\* primed only within its limit, and once priming has failed no
\* build-starting is emitted, build() is not called, the Destination is
\* neither primed nor updated, and the destination directory stays as it is.
C22_LimitFailsStart ==
  /\ [](/\ (srcPrime = "done" /\ nEvents = 0) => srcSize <= limit
        /\ srcPrime = "failed" =>
             /\ sPc \in {"primeSrc", "rejected"}
             /\ nStarting = 0 /\ nComplete = 0 /\ nFailed = 0
             /\ nCalls = 0 /\ bPc = "none"
             /\ uCalls = 0 /\ destPrime = "none" /\ nLoads = 0)
  /\ [][srcPrime' = "failed" => UNCHANGED diskVars]_vars

\* C22 happens: in watch mode the source directory held two bytes against a
\* limit of one, and start() has rejected.
C22_Witness ==
  /\ watch
  /\ limit = SmallLimit
  /\ srcPrime = "failed"
  /\ sPc = "rejected"

\* --------------------------------------------- claims on the events emitted

\* C27: the events of one Automator alternate: build-starting is emitted
\* only when every earlier build-starting has been answered by one
\* build-complete or build-failed, and an answer is emitted only for a
\* build-starting that is still open; the first build-starting carries
\* triggers null and every later one a map.
C27_EventsAlternate ==
  /\ [](/\ nStarting - (nComplete + nFailed) \in {0, 1}
        /\ nStarting = 1 => lastTriggers = "null"
        /\ nStarting > 1 => lastTriggers = "map")
  /\ [][/\ nStarting' > nStarting =>
             /\ nStarting = nComplete + nFailed
             /\ nStarting' = nStarting + 1
        /\ nComplete' + nFailed' > nComplete + nFailed =>
             /\ nComplete' + nFailed' = nComplete + nFailed + 1
             /\ nStarting' = nComplete' + nFailed']_vars

\* C27 happens: the first build and a rebuild have each been announced and
\* answered, and a third build-starting is open.
C27_Witness ==
  /\ nStarting = 3
  /\ nComplete + nFailed = 2
  /\ lastTriggers = "map"

\* ------------------------------------------ claims on the Source's handler

\* C29: on a delete event for a path, a path in the Source's map is removed
\* and the byte count reduced by the length of its stored contents, and
\* otherwise map and count stay as they are; either way the path's
\* last-touched record is cleared and one 'updated' event is emitted.
C29_DeleteEvent ==
  [][\A file \in AutoPaths :
       SourceUpdated("delete", file, Undefined) =>
         /\ IF file \in DOMAIN srcFiles
              THEN /\ srcFiles' = Remove(srcFiles, file)
                   /\ srcSize' = srcSize - Len(srcFiles[file])
              ELSE /\ srcFiles' = srcFiles
                   /\ srcSize' = srcSize
         /\ filesLastTouched'[file] = 0
         /\ nUpdated' = nUpdated + 1
         /\ nErrors' = nErrors]_vars

\* C29 happens: of the two files of one byte each that the Source held, a
\* was deleted: b is left, untouched, the count is 1, and the one event was
\* reported.
C29_Witness ==
  /\ nEvents = 1
  /\ nUpdated = 1
  /\ srcFiles = [p \in {<<"b">>} |-> <<1>>]
  /\ srcSize = 1
  /\ \A file \in AutoPaths : filesLastTouched[file] = 0

\* C30: an add or change event whose read fails with ENOENT leaves the
\* Source as a delete event for that path would: the path is not in the
\* map, the byte count is reduced by the length of the contents removed,
\* the path has no last-touched record, and one 'updated' event is emitted.
C30_NotFoundIsDelete ==
  [][\A file \in AutoPaths : \A type \in {"add", "change"} :
       SourceUpdated(type, file, NotFound) =>
         /\ srcFiles' = Remove(srcFiles, file)
         /\ srcSize' = SizeAfterDelete(srcSize, Get(srcFiles, file))
         /\ filesLastTouched'[file] = 0
         /\ nUpdated' = nUpdated + 1]_vars

\* ------------------------------------- the Automator's constructor, claims

\* Segments of a path argument, at most.
MaxSegs == 2
\* process.cwd()
ProcessCwd == <<"w">>
\* The relative path arguments: up to MaxSegs segments, ".." among them.
RelSegs == UNION { [1..n -> {"s", "o", ".."}] : n \in 0..MaxSegs }
\* The absolute path arguments: the working directory, directories in it,
\* a directory beside it.
AbsSegs == { <<"w">>, <<"w", "s">>, <<"w", "o">>, <<"o">> }
\* A value that is no string.
NotAString == [str |-> FALSE, abs |-> FALSE, segs |-> << >>]
\* What src and dest may be given as.
PathArgs ==
  {[str |-> TRUE, abs |-> FALSE, segs |-> q] : q \in RelSegs}
    \cup {[str |-> TRUE, abs |-> TRUE, segs |-> q] : q \in AbsSegs}
    \cup {NotAString}
\* What cwd may be given as: ".", the working directory, "s", no string.
CwdArgs ==
  { [str |-> TRUE, abs |-> FALSE, segs |-> << >>],
    [str |-> TRUE, abs |-> TRUE, segs |-> <<"w">>],
    [str |-> TRUE, abs |-> FALSE, segs |-> <<"s">>],
    NotAString }

\* path.normalize, on segments: ".." drops the segment before it, and
\* stays at the root
RECURSIVE Normalize(_, _)
Normalize(done, rest) ==
  IF rest = << >> THEN done
  ELSE IF Head(rest) = ".."
    THEN Normalize(SubSeq(done, 1, Len(done) - 1), Tail(rest))
  ELSE Normalize(Append(done, Head(rest)), Tail(rest))

\* path.resolve(from, to), from being absolute
Resolve(from, to) ==
  Normalize(<< >>, IF to.abs THEN to.segs ELSE from \o to.segs)

\* subdir(parent, dir) of the subdir package: dir lies below parent; what
\* it gives for parent itself is left open
SubdirLib(parent, dir) == Subdir(parent, dir) \/ (subdirOfSelf /\ parent = dir)

\* the constructor's validation, in its order: the error it throws, or none
ConstructorError(args, cwdR, srcR, destR) ==
  IF ~args.cwd.str THEN "cwd must be a string"
  ELSE IF ~args.src.str THEN "src must be a string"
  ELSE IF ~SubdirLib(cwdR, srcR) THEN "src cannot be outside the CWD"
  ELSE IF ~args.dest.str THEN "dest must be a string"
  ELSE IF ~SubdirLib(cwdR, destR) THEN "dest cannot be outside the CWD"
  ELSE IF destR = srcR \/ SubdirLib(srcR, destR)
    THEN "dest must be outside the src directory"
  ELSE IF args.other # "ok" THEN args.other
  ELSE "none"

\* new Automator({cwd, src, dest, waypoints, watch, limit}): the options are
\* validated, and only then are the Source and the Destination created.
Construct ==
  /\ ctorPc = "new"
  /\ LET cwdR == Resolve(ProcessCwd, ctorArgs.cwd)
         srcR == Resolve(cwdR, ctorArgs.src)
         destR == Resolve(cwdR, ctorArgs.dest)
         error == ConstructorError(ctorArgs, cwdR, srcR, destR)
     IN /\ ctorError' = error
        /\ IF error = "none"
             THEN /\ ctorPc' = "constructed"
                  /\ cwd' = cwdR /\ srcDir' = srcR /\ destDir' = destR
                  /\ created' = TRUE
             ELSE /\ ctorPc' = "threw"
                  /\ UNCHANGED <<cwd, srcDir, destDir, created>>
  /\ UNCHANGED <<ctorArgs, subdirOfSelf>>
  /\ UNCHANGED <<diskVars, destVars, updVars, dirVars, confVars, cliVars,
                 touchVars, srcVars, startVars, buildVars, loopVars, emitVars>>

\* SpecCtor: the constructor called once with any options.
InitCtor ==
  /\ diskFiles = EmptyStore /\ diskDirs = {Root}
  /\ InitDestination
  /\ InitAutomator
  /\ disk0 = Unrecorded
  /\ limit = DefaultLimit
  /\ watch = FALSE /\ waypoints = << >>
  /\ NoCli
  /\ ctorArgs \in [cwd : CwdArgs, src : PathArgs, dest : PathArgs,
                   other : {"ok", "waypoints must all be functions",
                            "watch must be boolean if set",
                            "limit must be a number if set"}]
  /\ subdirOfSelf \in BOOLEAN
  /\ ctorPc = "new" /\ ctorError = "none"
  /\ cwd = << >> /\ srcDir = << >> /\ destDir = << >>
  /\ created = FALSE

NextCtor == Construct

SpecCtor == InitCtor /\ [][NextCtor]_vars

\* C21: the constructor throws, before the Source and the Destination are
\* created, whenever src or dest resolves outside cwd, dest equals src, dest
\* lies inside src, or dest is an ancestor of src: no Automator is
\* constructed whose destination directory contains or is contained in its
\* source directory.
C21_DestApartFromSrc ==
  /\ ctorPc = "threw" => ~created
  /\ ctorPc = "constructed" =>
       /\ srcDir = cwd \/ Subdir(cwd, srcDir)
       /\ destDir = cwd \/ Subdir(cwd, destDir)
       /\ destDir # srcDir
       /\ ~Subdir(srcDir, destDir)
       /\ ~Subdir(destDir, srcDir)

\* ------------------------------------------------- the CLI's tasks, claims

\* What the function exported under a task's name does when it is called.
\*   missing:         the tripfile exports no function of that name
\*   sync:            returns undefined
\*   throws:          throws before it returns
\*   resolves:        returns a promise that fulfils with undefined
\*   rejects:         returns a promise that rejects
\*   value:           returns, or resolves with, something that is no stream
\*   stream:          returns a stream, which ends
\*   brokenStream:    returns a stream, which emits an error
\*   done:            declares `done`, calls done() later
\*   doneError:       declares `done`, calls done(error) later
\*   doneReturns:     declares `done` and returns something
\*   doneSyncReturns: declares `done`, calls done() and then returns something
\*   hangs:           returns a promise that never settles
TaskKinds ==
  { "missing", "sync", "throws", "resolves", "rejects", "value", "stream",
    "brokenStream", "done", "doneError", "doneReturns", "doneSyncReturns",
    "hangs" }

\* The command lines: one to MaxTasks task names.
CommandLines == UNION { [1..n -> TaskKinds] : n \in 1..MaxTasks }

\* What the promise awaited for a task that was called settles with: with
\* `done`, the first of resolve() and reject(); without, the value of
\* Bluebird.resolve(fn(flags)).
Awaited(kind) ==
  CASE kind \in {"sync", "resolves", "done", "doneSyncReturns"} -> "undefined"
    [] kind \in {"rejects", "doneError", "doneReturns"} -> "rejected"
    [] kind \in {"stream", "brokenStream"} -> "stream"
    [] kind = "value" -> "value"
    [] kind = "hangs" -> "pending"

\* what the task returned is ignored
NeverTruthy(r) == FALSE

\* if (r): the task returned, or resolved with, something
Truthy(r) == r # "undefined"

\* isFunction(r.pipe): the end of the stream is awaited
AwaitsEnd(r) == r = "stream"

\* the flag is left as it is when a task fails
RunningKept(flag) == flag

\* taskRunning = false, in the catch around a task
RunningAfterError(flag) == FALSE

\* The task loop from the top of its turn for tasks[i] to its next await:
\* after the last task finish() is called and the process ends; a name that
\* is no function throws `task not found`; otherwise the function is
\* called, and if it throws at once the task has failed. A failure sets
\* `failed`, and finish() exits with code 1.
RunTask(i) ==
  /\ taskIndex' = i
  /\ IF i > Len(tasks)
       THEN /\ cliPc' = "exited" /\ exitCode' = 0
            /\ taskRunning' = FALSE
            /\ UNCHANGED <<failed, called>>
     ELSE IF tasks[i] = "missing"
       THEN /\ cliPc' = "exited" /\ exitCode' = 1
            /\ failed' = TRUE
            /\ taskRunning' = FALSE
            /\ UNCHANGED called
     ELSE IF tasks[i] = "throws"
       THEN /\ cliPc' = "exited" /\ exitCode' = 1
            /\ failed' = TRUE
            /\ taskRunning' = RunningAfterError(TRUE)
            /\ called' = Append(called, i)
     ELSE /\ cliPc' = "awaitTask"
          /\ taskRunning' = TRUE
          /\ called' = Append(called, i)
          /\ UNCHANGED <<failed, exitCode>>

\* The catch around a task, the outer catch and finish(): the task failed.
TaskFails ==
  /\ cliPc' = "exited" /\ exitCode' = 1
  /\ failed' = TRUE
  /\ taskRunning' = RunningAfterError(taskRunning)
  /\ UNCHANGED <<taskIndex, called, finished>>

\* The launch callback runs: without a tripfile the process exits with code
\* 1; a tripfile that throws when loaded sets `failed` and finish() exits;
\* otherwise the loop starts with the first task.
CliLaunch(tripfile) ==
  /\ cliPc = "launch"
  /\ IF tripfile # "loaded"
       THEN /\ cliPc' = "exited" /\ exitCode' = 1
            /\ failed' = (tripfile = "throws")
            /\ UNCHANGED <<taskIndex, taskRunning, called>>
       ELSE RunTask(1)
  /\ UNCHANGED <<tasks, finished>>
  /\ UNCHANGED <<diskVars, destVars, updVars, dirVars, confVars, ctorVars,
                 touchVars, srcVars, startVars, buildVars, loopVars, emitVars>>

\* The promise awaited for the running task settles. Rejected, the task
\* has failed; fulfilled with a stream, the end of the stream is awaited;
\* with anything else that is truthy, the task has failed; otherwise the
\* task has finished (a stream that was returned has not, until it ends)
\* and the loop goes on to the next task.
TaskSettles ==
  /\ cliPc = "awaitTask"
  /\ LET r == Awaited(tasks[taskIndex])
     IN /\ r # "pending"
        /\ IF r = "rejected"
             THEN TaskFails
           ELSE IF Truthy(r)
             THEN IF AwaitsEnd(r)
                    THEN /\ cliPc' = "awaitStream"
                         /\ UNCHANGED <<taskIndex, taskRunning, failed,
                                        exitCode, called, finished>>
                    ELSE TaskFails
           ELSE /\ finished' = IF r = "stream" THEN finished
                               ELSE finished \cup {taskIndex}
                /\ RunTask(taskIndex + 1)
  /\ UNCHANGED tasks
  /\ UNCHANGED <<diskVars, destVars, updVars, dirVars, confVars, ctorVars,
                 touchVars, srcVars, startVars, buildVars, loopVars, emitVars>>

\* The stream returned by the running task ends, or emits an error.
StreamSettles ==
  /\ cliPc = "awaitStream"
  /\ IF tasks[taskIndex] = "stream"
       THEN /\ finished' = finished \cup {taskIndex}
            /\ RunTask(taskIndex + 1)
       ELSE TaskFails
  /\ UNCHANGED tasks
  /\ UNCHANGED <<diskVars, destVars, updVars, dirVars, confVars, ctorVars,
                 touchVars, srcVars, startVars, buildVars, loopVars, emitVars>>

\* The event loop runs empty while the task's promise is pending: the
\* 'exit' handler finds taskRunning set and exits with code 1.
ProcessExits ==
  /\ cliPc = "awaitTask"
  /\ Awaited(tasks[taskIndex]) = "pending"
  /\ cliPc' = "exited"
  /\ exitCode' = IF taskRunning THEN 1 ELSE 0
  /\ UNCHANGED <<tasks, taskIndex, taskRunning, failed, called, finished>>
  /\ UNCHANGED <<diskVars, destVars, updVars, dirVars, confVars, ctorVars,
                 touchVars, srcVars, startVars, buildVars, loopVars, emitVars>>

\* SpecCli: one run of the CLI, with any command line of up to MaxTasks
\* tasks.
InitCli ==
  /\ diskFiles = EmptyStore /\ diskDirs = {Root}
  /\ InitDestination
  /\ InitAutomator
  /\ disk0 = Unrecorded
  /\ limit = DefaultLimit
  /\ watch = FALSE /\ waypoints = << >>
  /\ NoCtor
  /\ tasks \in CommandLines
  /\ cliPc = "launch" /\ taskIndex = 0
  /\ taskRunning = FALSE /\ failed = FALSE /\ exitCode = -1
  /\ called = << >> /\ finished = {}

Launch == \E tripfile \in {"loaded", "throws", "none"} : CliLaunch(tripfile)

NextCli ==
  \/ Launch
  \/ TaskSettles
  \/ StreamSettles
  \/ ProcessExits

SpecCli == InitCli /\ [][NextCli]_vars

\* C25: the tasks of one command line run in series, in the order given:
\* the functions called are those of the first tasks, in order, and when a
\* task's function is called the task before it has finished (its promise
\* fulfilled, its stream ended, or its done callback was called without an
\* error).
C25_TasksInSeries ==
  \A k \in 1..Len(called) :
    /\ called[k] = k
    /\ k > 1 => (k - 1) \in finished

\* C25 happens: a task returning a stream, a callback-style task and an
\* async task were given, each was called after the one before had
\* finished, and the process has ended with code 0.
C25_Witness ==
  /\ tasks = <<"stream", "done", "resolves">>
  /\ called = <<1, 2, 3>>
  /\ finished = {1, 2, 3}
  /\ exitCode = 0

\* The ways a task fails: its name is no exported function, it throws, its
\* promise rejects, its done callback is called with an error, it returns
\* an unsupported value, also beside a done callback that is still to be
\* called, or its stream emits an error.
FailingKinds ==
  { "missing", "throws", "rejects", "doneError", "value", "doneReturns",
    "brokenStream" }

C32_OverLimitEmitsError ==
  [][\A file \in AutoPaths : \A type \in {"add", "change"} :
       \A contents \in ReadResults \ {NotFound, Unreadable} :
         (/\ SourceUpdated(type, file, contents)
          /\ contents # Get(srcFiles, file)
          /\ OverLimit(SizeAfterWrite(srcSize, Get(srcFiles, file), contents),
                       limit)) =>
           /\ srcFiles' = srcFiles
           /\ nUpdated' = nUpdated
           /\ nErrors' = nErrors + 1]_vars

\* C33: an add or change event that brings the bytes already stored emits
\* 'updated' unless an add or change event for the path was handled 250ms
\* ago or less; it does so in particular when the path has no last-touched
\* record, being the first event for a file loaded by priming.
C33_FirstTouchReported ==
  [][\A file \in AutoPaths : \A type \in {"add", "change"} :
       \A contents \in ReadResults \ {NotFound, Unreadable} :
         (/\ SourceUpdated(type, file, contents)
          /\ contents = Get(srcFiles, file)) =>
           (nUpdated' = nUpdated + 1) <=>
              ~(/\ filesLastTouched[file] # 0
                /\ now - filesLastTouched[file] <= QuietPeriod)]_vars

\* C36: after priming and after every watcher event, the Source's byte
\* count is the sum of the lengths of the contents in its map.
C36_SizeIsSumOfLengths ==
  srcPrime = "done" => srcSize = Size(srcFiles)

\* C40: once stop() has closed the watcher no build is started: no further
\* build-starting event is emitted.
C40_NoBuildAfterStop ==
  [][closed => nStarting' = nStarting]_vars

\* C31: an add or change event whose read fails for another reason than
\* the file not being found leaves the Source's map, byte count and records
\* as they were, emits one 'error' and no 'updated', and leaves the watcher
\* open and ready for later events.
C31_ReadFailureReported ==
  [][\A file \in AutoPaths : \A type \in {"add", "change"} :
       SourceUpdated(type, file, Unreadable) =>
         /\ srcFiles' = srcFiles
         /\ srcSize' = srcSize
         /\ filesLastTouched' = filesLastTouched
         /\ nErrors' = nErrors + 1
         /\ nUpdated' = nUpdated
         /\ watcher' = "ready"
         /\ ~closed']_vars

\* C31 happens: of two events one could not be read and the other stored
\* new contents for a tracked file and was reported.
C31_Witness ==
  /\ nEvents = 2
  /\ nErrors = 1
  /\ nUpdated = 1
  /\ srcSize = 2
  /\ srcFiles = [p \in {<<"a">>} |-> <<1, 2>>]

\* ------------------------------------ claims on the Destination's failures

\* C38: update() assigns newFiles to the Destination's map before any disk
\* operation and never puts the old map back: once past the no-change test
\* the map is newFiles, also when the update has rejected, and it is still
\* so when the next call starts; a call that repeats the newFiles of the
\* call before it takes the no-change path, returns [] and does nothing on
\* disk.
C38_NoRollback ==
  /\ [](uPc \notin {"idle", "priming"} => destFiles = uNew)
  /\ []((uPc = "priming" /\ uCalls >= 2) => destFiles = uPrev)
  /\ [][(UpdateStarts /\ uCalls >= 2 /\ uPrev = uNew) =>
           /\ uPc' = "returned"
           /\ uChanges' = << >>
           /\ uIo' = 0
           /\ pendW' = {} /\ pendD' = {}
           /\ diskVars' = diskVars]_vars

\* C38 happens: the first update failed on a disk operation, the second
\* one repeated its newFiles and returned [] without any disk operation,
\* and the disk does not hold the Destination's map.
C38_Witness ==
  /\ uCalls = 2
  /\ uPrev = uNew
  /\ uPc = "returned"
  /\ uChanges = << >>
  /\ uIo = 0
  /\ faults = 1
  /\ diskFiles # destFiles

\* C37: the outcome of update() does not depend on the order in which its
\* writes and deletions take effect: while they are pending, a write and a
\* deletion taken in either order both succeed or not, and leave the same
\* files and directories on disk.
C37_OrderIndependent ==
  uPc = "io" =>
    \A w \in pendW : \A d \in pendD :
      LET w1 == DiskWrite(diskFiles, diskDirs, w, uNew[w])
          d1 == DiskDelete(w1.files, w1.dirs, d)
          d2 == DiskDelete(diskFiles, diskDirs, d)
          w2 == DiskWrite(d2.files, d2.dirs, w, uNew[w])
      IN /\ (w1.ok /\ d1.ok) = (d2.ok /\ w2.ok)
         /\ d1.files = w2.files
         /\ d1.dirs = w2.dirs

\* ------------------------------------------- claims on the trigger map

\* the watch loop at rest: the listener is attached, no timer is pending,
\* no callback is chained and no build of the loop is in flight
LoopAtRest == listening /\ ~timerPending /\ queued = 0 /\ ~chainBusy

\* C35: while no build is in flight, a burst of 'updated' events produces
\* one rebuild. The loop at rest has an empty trigger set; each event of
\* the burst records its kind for its path over the earlier ones and
\* (re)starts the timer without starting a build; the timer firing at the
\* end of the burst chains one callback; the callback emits one
\* build-starting whose map covers every path of the burst, and resets the
\* trigger set to empty.
C35_BurstIsOneBuild ==
  /\ [](LoopAtRest => (triggers = EmptyStore /\ uncovered = {}))
  /\ [][\A file \in AutoPaths : \A type \in {"add", "change", "delete"} :
         \A contents \in ReadResults :
           (/\ SourceUpdated(type, file, contents)
            /\ listening /\ queued = 0 /\ ~chainBusy
            /\ nUpdated' = nUpdated + 1) =>
             /\ triggers' = SetFile(triggers, file, type)
             /\ timerPending'
             /\ queued' = 0
             /\ nStarting' = nStarting]_vars
  /\ [][(TimerFires /\ queued = 0 /\ ~chainBusy) =>
           /\ queued' = 1
           /\ triggers' = triggers
           /\ nStarting' = nStarting]_vars
  /\ [][(ChainRuns /\ queued = 1 /\ uncovered = DOMAIN triggers) =>
           /\ nStarting' = nStarting + 1
           /\ lastTriggers' = "map"
           /\ uncovered' = {}
           /\ triggers' = EmptyStore
           /\ queued' = 0]_vars

\* C35 happens: two events, the last one a delete of a, were reported in
\* one burst and one rebuild has started for them.
C35_Witness ==
  /\ nEvents = 2
  /\ nUpdated = 2
  /\ nStarting = 2
  /\ lastTriggers = "map"
  /\ chainBusy /\ queued = 0 /\ ~timerPending
  /\ triggers = EmptyStore /\ uncovered = {}
  /\ <<"a">> \notin DOMAIN srcFiles
  /\ filesLastTouched[<<"a">>] = 0

\* C39: every build-starting event of the watch loop carries a trigger map
\* with at least one path.
C39_TriggersNeverEmpty ==
  [][ChainRuns => EmittedTriggers(triggers) # EmptyStore]_vars

\* ------------------------------------------ claims on the Source's races

\* C34: once no handler of the watcher is waiting for its read, the
\* Source's map holds for every path what the source directory holds: the
\* file's latest bytes, or nothing if it was deleted, in whatever order the
\* reads were served and the handlers resumed.
C34_StoreMirrorsDisk ==
  reads = {} => srcFiles = srcDisk

====
